---- MODULE Spec2Model ----
(***************************************************************************)
(* Session continuity and failure recovery of the Claude CLI API server:   *)
(* the session state tracker (SessionManager), the persistent session      *)
(* store (SessionStore) and the error recovery engine                      *)
(* (ErrorRecoverySystem).  Times are milliseconds, as Date.now() gives.    *)
(***************************************************************************)
EXTENDS Integers, Sequences, FiniteSets, TLC

VARIABLES
    now,            \* the wall clock, Date.now()
    sessionStates,  \* SessionManager.sessionStates: Map<string, SessionState>
    ret,            \* the last call on the tracker and the value it returned
    streak,         \* history: per session, markSessionError calls in a row since it was registered
    errMsg,         \* classifyError: the error message handed in
    classification, \* classifyError: the ErrorClassification returned
    context,        \* determineRecoveryStrategy: the RecoveryContext handed in
    strategy,       \* determineRecoveryStrategy: the RecoveryStrategy returned
    sessionMetadata,\* SessionStore.sessionMetadata: Map<string, SessionMetadata>
    handlers,       \* the handleError invocations: where each stands and what it holds
    metadataFile,   \* metadata.json of the store: the entries loadMetadata reads from it
    backups,        \* the backups directory: backup-<timestamp>.json, by timestamp
    backupTimer,    \* SessionStore.backupTimer: the interval timer is armed
    config,         \* SessionStore.config: backupEnabled and maxBackups
    backupDirExists,\* the backups directory is on the disk
    storeRet,       \* the last call on the store and the value it returned
    insertion,      \* the keys of SessionStore.sessionMetadata in the Map's insertion order
    trip            \* history: the backup, clear, restore sequence under way and the map it began with

vars == <<now, sessionStates, ret, streak, errMsg, classification, context, strategy,
          sessionMetadata, handlers, metadataFile, backups, backupTimer, config,
          backupDirExists, storeRet, insertion, trip>>

trackerVars == <<now, sessionStates, ret, streak>>
engineVars == <<errMsg, classification, context, strategy>>
diskVars == <<metadataFile, backups, backupTimer, config, backupDirExists, storeRet,
              insertion, trip>>

----------------------------------------------------------------------------
(* Bounds of the model *)

\* Date.now() when the SessionManager is constructed
StartTime == 3600000
\* the clock advances in steps of a quarter of an hour
TickMs == 900000
\* number of clock steps after construction
MaxTicks == 2
\* updateSessionActivity is called while messageCount is below this
MaxMessages == 2
\* markSessionError is called while retryCount is below this
MaxRetryCount == 4

\* every session id a caller passes
SessionIds == {"s1", "s2"}
\* the session ids that session files and registrations carry
LiveIds == {"s1"}
\* the project paths and models of registrations, the messages of errors
ProjectPaths == {"/p1"}
Models == {"sonnet"}
ErrorTexts == {<<"e1">>, <<"e2">>}
\* the session files found at construction: cwd, mtime and birthtime
BootPaths == {""}
BootMTimes == {StartTime - 2 * TickMs, StartTime - TickMs}
BootBirthTimes == {0, StartTime - 2 * TickMs}

----------------------------------------------------------------------------
(* Session State Tracker *)

sessionTimeout == 30 * 60 * 1000
maxRetries == 3

isRecentlyActive(timestamp) == now - timestamp < sessionTimeout

\* an optional string that is absent
Undefined == "undefined"
\* an error text is the sequence of the pieces it was put together from;
\* an absent lastError has none
NoError == << >>

\* `x || y` on numbers: 0 is falsy
OrElse(x, y) == IF x # 0 THEN x ELSE y

Tracked(s) == s \in DOMAIN sessionStates

MapSet(map, k, v) == [x \in DOMAIN map \cup {k} |-> IF x = k THEN v ELSE map[x]]

\* the SessionState initializeSessionTracking builds from one session file
bootState(cwd, mtime, birthtime) ==
    [projectPath  |-> cwd,
     isActive     |-> isRecentlyActive(mtime),
     lastActivity |-> mtime,
     createdAt    |-> birthtime,
     messageCount |-> 0,
     model        |-> Undefined,
     lastError    |-> NoError,
     retryCount   |-> 0]

\* the SessionState registerSession stores
registeredState(s, projectPath, model) ==
    [projectPath  |-> projectPath,
     isActive     |-> TRUE,
     lastActivity |-> now,
     createdAt    |-> IF Tracked(s) THEN OrElse(sessionStates[s].createdAt, now) ELSE now,
     messageCount |-> IF Tracked(s) THEN OrElse(sessionStates[s].messageCount, 0) ELSE 0,
     model        |-> model,
     lastError    |-> NoError,
     retryCount   |-> 0]

\* updateSessionActivity clearing the error count as a registration does
activeState_ResetsRetry(st) ==
    [st EXCEPT !.lastActivity = now,
               !.isActive = TRUE,
               !.messageCount = st.messageCount + 1,
               !.retryCount = 0]

\* the SessionState updateSessionActivity leaves
activeState(st) ==
    [st EXCEPT !.lastActivity = now,
               !.isActive = TRUE,
               !.messageCount = st.messageCount + 1]

\* markSessionError with the ceiling compared by <= instead of <
erroredState_Inclusive(st, error) ==
    [st EXCEPT !.lastError = error,
               !.retryCount = st.retryCount + 1,
               !.isActive = st.retryCount + 1 <= maxRetries]

\* the SessionState markSessionError leaves
erroredState(st, error) ==
    [st EXCEPT !.lastError = error,
               !.retryCount = st.retryCount + 1,
               !.isActive = st.retryCount + 1 < maxRetries]

\* cleanupInactiveSessions sparing a session idle for exactly the timeout
cleanedState_Strict(st) ==
    IF now - st.lastActivity > sessionTimeout THEN [st EXCEPT !.isActive = FALSE] ELSE st

\* cleanupInactiveSessions clearing the error count of the sessions it flips
cleanedState_ResetsRetry(st) ==
    IF ~isRecentlyActive(st.lastActivity)
    THEN [st EXCEPT !.isActive = FALSE, !.retryCount = 0]
    ELSE st

\* the SessionState cleanupInactiveSessions leaves
cleanedState(st) ==
    IF ~isRecentlyActive(st.lastActivity) THEN [st EXCEPT !.isActive = FALSE] ELSE st

Void(op, s) == [op |-> op, sid |-> s]

\* registerSession puts a new object in the map: an invocation suspended in
\* checkSessionHealth keeps the object it read, which nothing updates any more
detached(hd, s) ==
    IF hd.pc = "health" /\ hd.ctx.sessionId = s /\ hd.held.live
    THEN [hd EXCEPT !.held = [live |-> FALSE, st |-> sessionStates[s]]]
    ELSE hd

registerSession(s, projectPath, model) ==
    /\ sessionStates' = MapSet(sessionStates, s, registeredState(s, projectPath, model))
    /\ handlers' = [h \in DOMAIN handlers |-> detached(handlers[h], s)]
    /\ streak' = [streak EXCEPT ![s] = 0]
    /\ ret' = Void("registerSession", s)
    /\ UNCHANGED <<now, engineVars, sessionMetadata, diskVars>>

updateSessionActivity(s) ==
    /\ Tracked(s) => sessionStates[s].messageCount < MaxMessages
    /\ sessionStates' = IF Tracked(s)
                        THEN MapSet(sessionStates, s, activeState(sessionStates[s]))
                        ELSE sessionStates
    /\ streak' = [streak EXCEPT ![s] = -1]
    /\ ret' = Void("updateSessionActivity", s)
    /\ UNCHANGED <<now, engineVars, sessionMetadata, diskVars, handlers>>

\* markSessionError opening an entry for an id it does not find
markedStates_Creates(s, error) ==
    IF Tracked(s)
    THEN MapSet(sessionStates, s, erroredState(sessionStates[s], error))
    ELSE MapSet(sessionStates, s, erroredState(bootState("", now, now), error))

\* the map and the history after markSessionError(s, error)
markedStates(s, error) ==
    IF Tracked(s)
    THEN MapSet(sessionStates, s, erroredState(sessionStates[s], error))
    ELSE sessionStates

markedStreak(s) ==
    IF Tracked(s) /\ streak[s] >= 0 THEN [streak EXCEPT ![s] = streak[s] + 1] ELSE streak

markSessionError(s, error) ==
    /\ Tracked(s) => sessionStates[s].retryCount < MaxRetryCount
    /\ sessionStates' = markedStates(s, error)
    /\ streak' = markedStreak(s)
    /\ ret' = Void("markSessionError", s)
    /\ UNCHANGED <<now, engineVars, sessionMetadata, diskVars, handlers>>

cleanupInactiveSessions ==
    /\ sessionStates' = [s \in DOMAIN sessionStates |-> cleanedState(sessionStates[s])]
    /\ streak' = [s \in SessionIds |-> -1]
    /\ ret' = Void("cleanupInactiveSessions", Undefined)
    /\ UNCHANGED <<now, engineVars, sessionMetadata, diskVars, handlers>>

\* the counts getSessionStats returns for a map of sessions
getSessionStats(map) ==
    [total      |-> Cardinality(DOMAIN map),
     active     |-> Cardinality({s \in DOMAIN map :
                        map[s].isActive /\ isRecentlyActive(map[s].lastActivity)}),
     inactive   |-> Cardinality({s \in DOMAIN map :
                        ~map[s].isActive \/ ~isRecentlyActive(map[s].lastActivity)}),
     withErrors |-> Cardinality({s \in DOMAIN map : map[s].lastError # NoError})]

\* the clock moves on
Tick ==
    /\ now < StartTime + MaxTicks * TickMs
    /\ now' = now + TickMs
    /\ UNCHANGED <<sessionStates, ret, streak, engineVars, sessionMetadata, diskVars, handlers>>

----------------------------------------------------------------------------
(* Health of a session.  The session file belongs to the external tool:    *)
(* what fs.existsSync and fs.accessSync find is an input of the call.      *)
(* getSessionFilePath only joins strings and fs.existsSync does not throw, *)
(* so the outer catch of checkSessionHealth is not taken.                  *)

\* missing: existsSync is false; inaccessible: accessSync throws; ok: neither
FileStates == {"missing", "inaccessible", "ok"}

healthError(st) ==
    IF ~isRecentlyActive(st.lastActivity) THEN "Session inactive due to timeout"
    ELSE IF ~st.isActive THEN "Session marked as inactive"
    ELSE IF st.retryCount >= maxRetries THEN "Session exceeded max retries"
    ELSE Undefined

\* checkSessionHealth that leaves retryCount out of isValid
healthOf_IgnoresRetries(st, fs) ==
    IF fs = "missing" THEN
        [isValid |-> FALSE, exists |-> FALSE, isAccessible |-> FALSE,
         lastActivity |-> st.lastActivity, error |-> "Session file does not exist"]
    ELSE IF fs = "inaccessible" THEN
        [isValid |-> FALSE, exists |-> TRUE, isAccessible |-> FALSE,
         lastActivity |-> st.lastActivity, error |-> "Session file is not accessible"]
    ELSE
        [isValid |-> isRecentlyActive(st.lastActivity) /\ st.isActive,
         exists |-> TRUE, isAccessible |-> TRUE,
         lastActivity |-> st.lastActivity, error |-> healthError(st)]

\* checkSessionHealth once the tracked SessionState st is in hand
healthOf(st, fs) ==
    IF fs = "missing" THEN
        [isValid |-> FALSE, exists |-> FALSE, isAccessible |-> FALSE,
         lastActivity |-> st.lastActivity, error |-> "Session file does not exist"]
    ELSE IF fs = "inaccessible" THEN
        [isValid |-> FALSE, exists |-> TRUE, isAccessible |-> FALSE,
         lastActivity |-> st.lastActivity, error |-> "Session file is not accessible"]
    ELSE
        [isValid |-> isRecentlyActive(st.lastActivity) /\ st.isActive
                        /\ st.retryCount < maxRetries,
         exists |-> TRUE, isAccessible |-> TRUE,
         lastActivity |-> st.lastActivity, error |-> healthError(st)]

checkSessionHealth(s, fs) ==
    IF ~Tracked(s) THEN
        [isValid |-> FALSE, exists |-> FALSE, isAccessible |-> FALSE,
         lastActivity |-> 0, error |-> "Session not found in tracking"]
    ELSE healthOf(sessionStates[s], fs)

\* validateSessionForContinuation that retries an invalid session marked inactive
validationOf_IgnoresActive(s, health) ==
    IF ~Tracked(s) THEN
        [isValid |-> FALSE, canContinue |-> FALSE, shouldRetry |-> FALSE,
         shouldCreateNew |-> TRUE, error |-> "Session not found"]
    ELSE IF ~health.exists THEN
        [isValid |-> FALSE, canContinue |-> FALSE, shouldRetry |-> FALSE,
         shouldCreateNew |-> TRUE, error |-> "Session file does not exist"]
    ELSE IF ~health.isAccessible THEN
        [isValid |-> FALSE, canContinue |-> FALSE,
         shouldRetry |-> sessionStates[s].retryCount < maxRetries,
         shouldCreateNew |-> sessionStates[s].retryCount >= maxRetries,
         error |-> "Session file not accessible"]
    ELSE IF ~health.isValid THEN
        [isValid |-> FALSE, canContinue |-> FALSE,
         shouldRetry |-> sessionStates[s].retryCount < maxRetries,
         shouldCreateNew |-> ~(sessionStates[s].retryCount < maxRetries),
         error |-> health.error]
    ELSE
        [isValid |-> TRUE, canContinue |-> TRUE, shouldRetry |-> FALSE,
         shouldCreateNew |-> FALSE, error |-> Undefined]

\* validateSessionForContinuation that looks at the health before the lookup
validationOf_HealthFirst(s, health) ==
    IF ~health.exists THEN
        [isValid |-> FALSE, canContinue |-> FALSE, shouldRetry |-> FALSE,
         shouldCreateNew |-> TRUE, error |-> "Session file does not exist"]
    ELSE IF ~Tracked(s) THEN
        [isValid |-> FALSE, canContinue |-> FALSE, shouldRetry |-> FALSE,
         shouldCreateNew |-> TRUE, error |-> "Session not found"]
    ELSE validationOf_IgnoresActive(s, health)

\* validateSessionForContinuation asking for a new session whenever the file is
\* not accessible
validationOf_AlwaysCreateNew(s, health) ==
    IF ~Tracked(s) THEN
        [isValid |-> FALSE, canContinue |-> FALSE, shouldRetry |-> FALSE,
         shouldCreateNew |-> TRUE, error |-> "Session not found"]
    ELSE IF ~health.exists THEN
        [isValid |-> FALSE, canContinue |-> FALSE, shouldRetry |-> FALSE,
         shouldCreateNew |-> TRUE, error |-> "Session file does not exist"]
    ELSE IF ~health.isAccessible THEN
        [isValid |-> FALSE, canContinue |-> FALSE,
         shouldRetry |-> sessionStates[s].retryCount < maxRetries,
         shouldCreateNew |-> TRUE,
         error |-> "Session file not accessible"]
    ELSE IF ~health.isValid THEN
        [isValid |-> FALSE, canContinue |-> FALSE,
         shouldRetry |-> sessionStates[s].retryCount < maxRetries /\ sessionStates[s].isActive,
         shouldCreateNew |-> ~(sessionStates[s].retryCount < maxRetries /\ sessionStates[s].isActive),
         error |-> health.error]
    ELSE
        [isValid |-> TRUE, canContinue |-> TRUE, shouldRetry |-> FALSE,
         shouldCreateNew |-> FALSE, error |-> Undefined]

\* validateSessionForContinuation that continues whenever the file is there and
\* can be read
validationOf_TrustsAccess(s, health) ==
    IF ~Tracked(s) THEN
        [isValid |-> FALSE, canContinue |-> FALSE, shouldRetry |-> FALSE,
         shouldCreateNew |-> TRUE, error |-> "Session not found"]
    ELSE IF ~health.exists THEN
        [isValid |-> FALSE, canContinue |-> FALSE, shouldRetry |-> FALSE,
         shouldCreateNew |-> TRUE, error |-> "Session file does not exist"]
    ELSE IF ~health.isAccessible THEN
        [isValid |-> FALSE, canContinue |-> FALSE,
         shouldRetry |-> sessionStates[s].retryCount < maxRetries,
         shouldCreateNew |-> sessionStates[s].retryCount >= maxRetries,
         error |-> "Session file not accessible"]
    ELSE
        [isValid |-> TRUE, canContinue |-> TRUE, shouldRetry |-> FALSE,
         shouldCreateNew |-> FALSE, error |-> Undefined]

\* validateSessionForContinuation once the health is in hand
validationOf(s, health) ==
    IF ~Tracked(s) THEN
        [isValid |-> FALSE, canContinue |-> FALSE, shouldRetry |-> FALSE,
         shouldCreateNew |-> TRUE, error |-> "Session not found"]
    ELSE IF ~health.exists THEN
        [isValid |-> FALSE, canContinue |-> FALSE, shouldRetry |-> FALSE,
         shouldCreateNew |-> TRUE, error |-> "Session file does not exist"]
    ELSE IF ~health.isAccessible THEN
        [isValid |-> FALSE, canContinue |-> FALSE,
         shouldRetry |-> sessionStates[s].retryCount < maxRetries,
         shouldCreateNew |-> sessionStates[s].retryCount >= maxRetries,
         error |-> "Session file not accessible"]
    ELSE IF ~health.isValid THEN
        [isValid |-> FALSE, canContinue |-> FALSE,
         shouldRetry |-> sessionStates[s].retryCount < maxRetries /\ sessionStates[s].isActive,
         shouldCreateNew |-> ~(sessionStates[s].retryCount < maxRetries /\ sessionStates[s].isActive),
         error |-> health.error]
    ELSE
        [isValid |-> TRUE, canContinue |-> TRUE, shouldRetry |-> FALSE,
         shouldCreateNew |-> FALSE, error |-> Undefined]

validateSessionForContinuation(s, fs) == validationOf(s, checkSessionHealth(s, fs))

Returned(op, s, fs, val) == [op |-> op, sid |-> s, fs |-> fs, val |-> val]

\* a caller awaits checkSessionHealth(s) on a tracker nothing else touches meanwhile
CallCheckSessionHealth(s, fs) ==
    /\ ret' = Returned("checkSessionHealth", s, fs, checkSessionHealth(s, fs))
    /\ UNCHANGED <<now, sessionStates, streak, engineVars, sessionMetadata, diskVars, handlers>>

\* a caller awaits validateSessionForContinuation(s) likewise
CallValidateSessionForContinuation(s, fs) ==
    /\ ret' = Returned("validateSessionForContinuation", s, fs,
                       validateSessionForContinuation(s, fs))
    /\ UNCHANGED <<now, sessionStates, streak, engineVars, sessionMetadata, diskVars, handlers>>

----------------------------------------------------------------------------
(* Specification of the tracker *)

InitTracker ==
    /\ now = StartTime
    /\ \/ sessionStates = << >>
       \/ \E s \in LiveIds, cwd \in BootPaths, mtime \in BootMTimes, birthtime \in BootBirthTimes :
              sessionStates = [x \in {s} |-> bootState(cwd, mtime, birthtime)]
    /\ ret = Void("constructor", Undefined)
    /\ streak = [s \in SessionIds |-> -1]

\* no classification, no context in hand
NoClassification == [type |-> Undefined]
NoContext == [sessionId |-> Undefined]

Handlers == {"h1", "h2"}
IdleHandler == [pc |-> "idle"]

InitEngineIdle ==
    /\ errMsg = << >>
    /\ classification = NoClassification
    /\ context = NoContext
    /\ strategy = Undefined

\* JSON.stringify leaves out the properties whose value is undefined
Defined(md, f) ==
    CASE f = "model" -> md.model # Undefined
      [] f = "lastError" -> md.lastError # NoError
      [] OTHER -> TRUE

stringify(md) == [f \in {g \in DOMAIN md : Defined(md, g)} |-> md[f]]

MetadataFields ==
    {"sessionId", "projectPath", "model", "createdAt", "lastActivity", "messageCount",
     "isActive", "retryCount", "lastError"}

\* the object JSON.parse gives, read as a SessionMetadata: a property left out
\* reads as undefined
parsed(json) ==
    [f \in MetadataFields |->
        IF f \in DOMAIN json THEN json[f]
        ELSE IF f = "lastError" THEN NoError ELSE Undefined]

\* saveMetadata: metadata.json rewritten with every entry of the map
saveMetadata(map) == [s \in DOMAIN map |-> stringify(map[s])]

\* loadMetadata: every entry of metadata.json set in the map
loadMetadata(file) == [s \in DOMAIN file |-> parsed(file[s])]

\* no backup, clear, restore sequence under way
NoTrip == [phase |-> "none"]

\* a store constructed on the directory that holds this metadata.json and these
\* backups
InitStore(cfg, file, order, dir) ==
    /\ config = cfg
    /\ metadataFile = file
    /\ sessionMetadata = loadMetadata(file)
    /\ insertion = order
    /\ backups = dir
    /\ backupDirExists = TRUE
    /\ backupTimer = cfg.backupEnabled
    /\ storeRet = [op |-> "constructor", val |-> Undefined]
    /\ trip = NoTrip

maxBackups == 10

\* the configuration of a store constructed without one
DefaultConfig == [backupEnabled |-> TRUE, maxBackups |-> maxBackups]

InitStoreLoaded(file, order, dir) == InitStore(DefaultConfig, file, order, dir)

InitRecoveryIdle ==
    /\ InitStoreLoaded(<< >>, << >>, << >>)
    /\ handlers = [h \in Handlers |-> IdleHandler]

\* a tracker that found no session file and has served no call
InitTrackerEmpty ==
    /\ now = StartTime
    /\ sessionStates = << >>
    /\ ret = Void("constructor", Undefined)
    /\ streak = [s \in SessionIds |-> -1]

Init == InitTracker /\ InitEngineIdle /\ InitRecoveryIdle

Next ==
    \/ \E s \in LiveIds, p \in ProjectPaths, m \in Models : registerSession(s, p, m)
    \/ \E s \in SessionIds : updateSessionActivity(s)
    \/ \E s \in SessionIds, e \in ErrorTexts : markSessionError(s, e)
    \/ cleanupInactiveSessions
    \/ \E s \in SessionIds, fs \in FileStates : CallCheckSessionHealth(s, fs)
    \/ \E s \in SessionIds, fs \in FileStates : CallValidateSessionForContinuation(s, fs)
    \/ Tick

Spec == Init /\ [][Next]_vars

----------------------------------------------------------------------------
(* Properties of the tracker, checked under Spec *)

\* C1: every tracked session with retryCount >= maxRetries has isActive = FALSE
C1_RetryCeilingInactive ==
    \A s \in DOMAIN sessionStates :
        sessionStates[s].retryCount >= maxRetries => ~sessionStates[s].isActive

\* C3: registerSession on a tracked id keeps createdAt and messageCount and sets
\* retryCount = 0, isActive = TRUE; on an untracked id it creates an entry with
\* retryCount = 0, messageCount = 0, isActive = TRUE
C3_RegisterIsUpsert ==
    [][\A s \in SessionIds, p \in ProjectPaths, m \in Models :
        registerSession(s, p, m) =>
            /\ s \in DOMAIN sessionStates'
            /\ sessionStates'[s].retryCount = 0
            /\ sessionStates'[s].isActive
            /\ Tracked(s) => /\ sessionStates'[s].createdAt = sessionStates[s].createdAt
                             /\ sessionStates'[s].messageCount = sessionStates[s].messageCount
            /\ ~Tracked(s) => sessionStates'[s].messageCount = 0]_vars

\* C4: each markSessionError adds 1 to retryCount, stores the message as lastError
\* and keeps messageCount; after k calls in a row on a freshly registered session
\* retryCount = k and isActive is true exactly when k < 3
C4_ErrorsCountUpToCeiling ==
    /\ [][\A s \in SessionIds, e \in ErrorTexts :
            (markSessionError(s, e) /\ Tracked(s)) =>
                /\ sessionStates'[s].retryCount = sessionStates[s].retryCount + 1
                /\ sessionStates'[s].lastError = e
                /\ sessionStates'[s].messageCount = sessionStates[s].messageCount]_vars
    /\ [](\A s \in DOMAIN sessionStates :
            streak[s] >= 0 => /\ sessionStates[s].retryCount = streak[s]
                              /\ sessionStates[s].isActive <=> (streak[s] < 3))

\* C4 witness: a freshly registered session marked more than three times in a row
C4_Witness ==
    \E s \in DOMAIN sessionStates :
        /\ streak[s] > 3
        /\ ~sessionStates[s].isActive
        /\ ret.op = "markSessionError"

WithinTimeout(st) == now - st.lastActivity < 30 * 60 * 1000

Healthy(st) == st.isActive /\ st.retryCount < 3 /\ WithinTimeout(st)

\* C5: the decision of validateSessionForContinuation on a tracked session, by file
\* state, isActive, retryCount and lastActivity
C5_ValidationTable ==
    [][\A s \in SessionIds, fs \in FileStates :
        (CallValidateSessionForContinuation(s, fs) /\ Tracked(s)) =>
            LET st == sessionStates[s]
                v == ret'.val
            IN  /\ fs = "missing" => v.shouldCreateNew /\ ~v.shouldRetry /\ ~v.canContinue
                /\ fs = "inaccessible" =>
                       /\ v.shouldRetry <=> st.retryCount < 3
                       /\ v.shouldCreateNew <=> ~v.shouldRetry
                       /\ ~v.canContinue
                /\ (fs = "ok" /\ ~Healthy(st)) =>
                       /\ v.shouldRetry <=> (st.isActive /\ st.retryCount < 3)
                       /\ v.shouldCreateNew <=> ~v.shouldRetry
                       /\ ~v.canContinue
                /\ (fs = "ok" /\ Healthy(st)) =>
                       v.canContinue /\ ~v.shouldRetry /\ ~v.shouldCreateNew]_vars

\* C5 witness: a validation that found the file but a timed-out session, and
\* answered shouldRetry
C5_Witness ==
    /\ ret.op = "validateSessionForContinuation"
    /\ Tracked(ret.sid)
    /\ ret.fs = "ok"
    /\ ret.val.shouldRetry
    /\ ~ret.val.canContinue

\* the check that the error text of a health result names
FailingCheck(error, s, fs) ==
    CASE error = "Session not found in tracking" -> ~Tracked(s)
      [] error = "Session file does not exist" -> Tracked(s) /\ fs = "missing"
      [] error = "Session file is not accessible" -> Tracked(s) /\ fs = "inaccessible"
      [] error = "Session inactive due to timeout" -> ~WithinTimeout(sessionStates[s])
      [] error = "Session marked as inactive" -> ~sessionStates[s].isActive
      [] error = "Session exceeded max retries" -> sessionStates[s].retryCount >= 3
      [] OTHER -> FALSE

\* C6: checkSessionHealth gives isValid = TRUE only for a tracked session whose file
\* exists and is accessible, that is active, under 3 retries and within the timeout;
\* otherwise isValid = FALSE with an error that names a failing check
C6_HealthIsValid ==
    [][\A s \in SessionIds, fs \in FileStates :
        CallCheckSessionHealth(s, fs) =>
            LET h == ret'.val
            IN  /\ h.isValid <=> (Tracked(s) /\ fs = "ok" /\ Healthy(sessionStates[s]))
                /\ ~h.isValid => FailingCheck(h.error, s, fs)
                /\ h.isValid => h.error = Undefined]_vars

\* C6 witness: a health check of a live, recent session that used up its retries
C6_Witness ==
    /\ ret.op = "checkSessionHealth"
    /\ ~ret.val.isValid
    /\ ret.val.error = "Session exceeded max retries"

\* C7: for an untracked id checkSessionHealth answers not valid, not existing,
\* 'Session not found...' and validateSessionForContinuation answers create-new with
\* error 'Session not found'; neither adds the id to the tracker
C7_UnknownSession ==
    [][\A s \in SessionIds, fs \in FileStates :
        /\ (CallCheckSessionHealth(s, fs) /\ ~Tracked(s)) =>
              /\ ~ret'.val.isValid
              /\ ~ret'.val.exists
              /\ ret'.val.error = "Session not found in tracking"
              /\ s \notin DOMAIN sessionStates'
        /\ (CallValidateSessionForContinuation(s, fs) /\ ~Tracked(s)) =>
              /\ ret'.val = [isValid |-> FALSE, canContinue |-> FALSE,
                             shouldRetry |-> FALSE, shouldCreateNew |-> TRUE,
                             error |-> "Session not found"]
              /\ s \notin DOMAIN sessionStates']_vars

\* C7 witness: a validation of an id the tracker does not hold
C7_Witness ==
    /\ ret.op = "validateSessionForContinuation"
    /\ ~Tracked(ret.sid)
    /\ ret.val.error = "Session not found"
    /\ ret.val.shouldCreateNew

\* C26: updateSessionActivity on a tracked session adds exactly 1 to messageCount,
\* sets lastActivity to the current time and isActive to TRUE and keeps createdAt,
\* projectPath, lastError and retryCount; a first registration starts messageCount
\* at 0, so that n calls after it leave messageCount = n
C26_ActivityCountsMessages ==
    /\ [][\A s \in SessionIds :
            (updateSessionActivity(s) /\ Tracked(s)) =>
                /\ sessionStates'[s].messageCount = sessionStates[s].messageCount + 1
                /\ sessionStates'[s].lastActivity = now
                /\ sessionStates'[s].isActive
                /\ sessionStates'[s].createdAt = sessionStates[s].createdAt
                /\ sessionStates'[s].projectPath = sessionStates[s].projectPath
                /\ sessionStates'[s].lastError = sessionStates[s].lastError
                /\ sessionStates'[s].retryCount = sessionStates[s].retryCount]_vars
    /\ [][\A s \in SessionIds, p \in ProjectPaths, m \in Models :
            (registerSession(s, p, m) /\ ~Tracked(s)) =>
                sessionStates'[s].messageCount = 0]_vars

\* C26 witness: a second updateSessionActivity on a session that has failed before
C26_Witness ==
    /\ ret.op = "updateSessionActivity"
    /\ Tracked(ret.sid)
    /\ sessionStates[ret.sid].messageCount = 2
    /\ sessionStates[ret.sid].retryCount > 0
    /\ sessionStates[ret.sid].lastError # NoError
    /\ sessionStates[ret.sid].lastActivity = now

\* C28: cleanupInactiveSessions sets isActive = FALSE for exactly the tracked
\* sessions that are no longer within the 30-minute timeout, keeps the set of
\* tracked ids, every other field and every session within the timeout; the
\* active count of getSessionStats does not grow and the inactive count does not
\* shrink across it
C28_CleanupFlipsTimedOut ==
    [][cleanupInactiveSessions =>
        /\ DOMAIN sessionStates' = DOMAIN sessionStates
        /\ \A s \in DOMAIN sessionStates :
               sessionStates'[s] = IF WithinTimeout(sessionStates[s])
                                   THEN sessionStates[s]
                                   ELSE [sessionStates[s] EXCEPT !.isActive = FALSE]
        /\ getSessionStats(sessionStates').active <= getSessionStats(sessionStates).active
        /\ getSessionStats(sessionStates').inactive >= getSessionStats(sessionStates).inactive]_vars

\* C28 witness: a session that was in use and never failed, found inactive after a
\* cleanup, half an hour after its last message
C28_Witness ==
    /\ ret.op = "cleanupInactiveSessions"
    /\ \E s \in DOMAIN sessionStates :
           /\ ~sessionStates[s].isActive
           /\ sessionStates[s].messageCount > 0
           /\ sessionStates[s].retryCount = 0
           /\ now - sessionStates[s].lastActivity >= 30 * 60 * 1000

\* C29: updateSessionActivity and markSessionError on an id that is not tracked
\* leave the tracker as it was and create no entry for the id
C29_UntrackedIsNoOp ==
    [][\A s \in SessionIds, e \in ErrorTexts :
        ((updateSessionActivity(s) \/ markSessionError(s, e)) /\ ~Tracked(s)) =>
            /\ sessionStates' = sessionStates
            /\ ~(s \in DOMAIN sessionStates')]_vars

\* C29 witness: a call on an untracked id has returned while another session is tracked
C29_Witness ==
    /\ ret.op \in {"updateSessionActivity", "markSessionError"}
    /\ ~Tracked(ret.sid)
    /\ sessionStates # << >>

\* C30: retryCount of a tracked session changes only by +1, in markSessionError on
\* that session, or to 0, in registerSession of that session; no other operation
\* (updateSessionActivity and cleanupInactiveSessions among them) lowers it
C30_RetryCountResetsOnRegister ==
    [][\A s \in DOMAIN sessionStates :
        /\ s \in DOMAIN sessionStates'
        /\ \/ sessionStates'[s].retryCount = sessionStates[s].retryCount
           \/ /\ sessionStates'[s].retryCount = sessionStates[s].retryCount + 1
              /\ ret'.op = "markSessionError"
              /\ ret'.sid = s
           \/ /\ sessionStates'[s].retryCount = 0
              /\ ret'.op = "registerSession"
              /\ ret'.sid = s]_vars

\* C30 witness: a timed-out session at the retry ceiling, after a cleanup
C30_Witness ==
    /\ ret.op = "cleanupInactiveSessions"
    /\ \E s \in DOMAIN sessionStates :
           /\ sessionStates[s].retryCount >= 3
           /\ sessionStates[s].messageCount > 0
           /\ ~WithinTimeout(sessionStates[s])

\* C31: lastActivity of a tracked session never decreases and its createdAt never
\* changes, whatever the tracker does, the clock not going back
C31_TimestampsKept ==
    [][\A s \in DOMAIN sessionStates :
        /\ s \in DOMAIN sessionStates'
        /\ sessionStates'[s].lastActivity >= sessionStates[s].lastActivity
        /\ sessionStates'[s].createdAt = sessionStates[s].createdAt]_vars

OneOf(a, b, c) == (a /\ ~b /\ ~c) \/ (~a /\ b /\ ~c) \/ (~a /\ ~b /\ c)

\* C36: every result of validateSessionForContinuation has exactly one of
\* canContinue, shouldRetry and shouldCreateNew true, and isValid = canContinue
C36_OneDecision ==
    (ret.op = "validateSessionForContinuation") =>
        /\ OneOf(ret.val.canContinue, ret.val.shouldRetry, ret.val.shouldCreateNew)
        /\ ret.val.isValid = ret.val.canContinue

\* C36 witness: the file of a session at the retry ceiling is not accessible, and
\* the one decision is a new session
C36_Witness ==
    /\ ret.op = "validateSessionForContinuation"
    /\ ret.fs = "inaccessible"
    /\ Tracked(ret.sid)
    /\ sessionStates[ret.sid].retryCount >= 3
    /\ ret.val.shouldCreateNew
    /\ ~ret.val.shouldRetry

----------------------------------------------------------------------------
(* Error Recovery Engine: classification.  A message is the sequence of    *)
(* its characters, so that toLowerCase and includes are computed.          *)

UpperCase == <<"A", "B", "C", "D", "E", "F", "G", "H", "I", "J", "K", "L", "M", "N", "O", "P", "Q", "R", "S", "T", "U", "V", "W", "X", "Y", "Z">>
LowerCase == <<"a", "b", "c", "d", "e", "f", "g", "h", "i", "j", "k", "l", "m", "n", "o", "p", "q", "r", "s", "t", "u", "v", "w", "x", "y", "z">>

toLowerCase(message) ==
    [i \in 1..Len(message) |->
        IF \E j \in 1..Len(UpperCase) : UpperCase[j] = message[i]
        THEN LowerCase[CHOOSE j \in 1..Len(UpperCase) : UpperCase[j] = message[i]]
        ELSE message[i]]

includes(message, keyword) ==
    \E i \in 0..(Len(message) - Len(keyword)) :
        SubSeq(message, i + 1, i + Len(keyword)) = keyword

NetworkKeywords ==
    {<<"f", "e", "t", "c", "h">>,
     <<"n", "e", "t", "w", "o", "r", "k">>,
     <<"c", "o", "n", "n", "e", "c", "t", "i", "o", "n">>,
     <<"t", "i", "m", "e", "o", "u", "t">>,
     <<"h", "t", "t", "p", " ", "5", "0">>,
     <<"h", "t", "t", "p", " ", "4", "0">>}

SessionKeywords ==
    {<<"s", "e", "s", "s", "i", "o", "n">>,
     <<"r", "e", "s", "u", "m", "e">>,
     <<"c", "o", "n", "t", "i", "n", "u", "a", "t", "i", "o", "n">>,
     <<"n", "o", "t", " ", "f", "o", "u", "n", "d">>,
     <<"i", "n", "v", "a", "l", "i", "d", " ", "s", "e", "s", "s", "i", "o", "n">>}

SystemKeywords ==
    {<<"c", "l", "a", "u", "d", "e", " ", "c", "l", "i">>,
     <<"c", "o", "m", "m", "a", "n", "d">>,
     <<"s", "p", "a", "w", "n">>,
     <<"p", "e", "r", "m", "i", "s", "s", "i", "o", "n">>,
     <<"f", "i", "l", "e", " ", "s", "y", "s", "t", "e", "m">>}

UserKeywords ==
    {<<"v", "a", "l", "i", "d", "a", "t", "i", "o", "n">>,
     <<"r", "e", "q", "u", "i", "r", "e", "d">>,
     <<"i", "n", "v", "a", "l", "i", "d">>,
     <<"m", "a", "l", "f", "o", "r", "m", "e", "d">>}

includesAny(message, keywords) == \E k \in keywords : includes(message, k)

Timeout == <<"t", "i", "m", "e", "o", "u", "t">>

\* classifyError that looks for the session keywords before the network keywords
classifyError_SessionFirst(error) ==
    LET message == toLowerCase(error) IN
    IF includesAny(message, SessionKeywords) THEN
        [type |-> "session", severity |-> "medium",
         recoverable |-> TRUE, retryable |-> FALSE, permanent |-> FALSE]
    ELSE IF includesAny(message, NetworkKeywords) THEN
        [type |-> "network",
         severity |-> IF includes(message, Timeout) THEN "medium" ELSE "high",
         recoverable |-> TRUE, retryable |-> TRUE, permanent |-> FALSE]
    ELSE IF includesAny(message, SystemKeywords) THEN
        [type |-> "system", severity |-> "high",
         recoverable |-> TRUE, retryable |-> TRUE, permanent |-> FALSE]
    ELSE IF includesAny(message, UserKeywords) THEN
        [type |-> "user", severity |-> "low",
         recoverable |-> FALSE, retryable |-> FALSE, permanent |-> TRUE]
    ELSE
        [type |-> "unknown", severity |-> "medium",
         recoverable |-> TRUE, retryable |-> TRUE, permanent |-> FALSE]

classifyError(error) ==
    LET message == toLowerCase(error) IN
    IF includesAny(message, NetworkKeywords) THEN
        [type |-> "network",
         severity |-> IF includes(message, Timeout) THEN "medium" ELSE "high",
         recoverable |-> TRUE, retryable |-> TRUE, permanent |-> FALSE]
    ELSE IF includesAny(message, SessionKeywords) THEN
        [type |-> "session", severity |-> "medium",
         recoverable |-> TRUE, retryable |-> FALSE, permanent |-> FALSE]
    ELSE IF includesAny(message, SystemKeywords) THEN
        [type |-> "system", severity |-> "high",
         recoverable |-> TRUE, retryable |-> TRUE, permanent |-> FALSE]
    ELSE IF includesAny(message, UserKeywords) THEN
        [type |-> "user", severity |-> "low",
         recoverable |-> FALSE, retryable |-> FALSE, permanent |-> TRUE]
    ELSE
        [type |-> "unknown", severity |-> "medium",
         recoverable |-> TRUE, retryable |-> TRUE, permanent |-> FALSE]

\* a caller classifies the error it holds
CallClassifyError ==
    /\ classification = NoClassification
    /\ classification' = classifyError(errMsg)
    /\ UNCHANGED <<trackerVars, errMsg, context, strategy, sessionMetadata, diskVars, handlers>>

\* the error messages classified: up to MaxFragments of these pieces in a row
MaxFragments == 2

Fragments ==
    {<<"F", "e", "t", "c", "h">>,
     <<" ", "t", "i", "m", "e", "o", "u", "t">>,
     <<"h", "t", "t", "p", " ", "5">>,
     <<"0">>,
     <<"s", "e", "s", "s", "i", "o", "n">>,
     <<"n", "o", "t", " ">>,
     <<"f", "o", "u", "n", "d">>,
     <<"C", "l", "a", "u", "d", "e", " ", "C", "L", "I">>,
     <<"s", "p", "a", "w", "n">>,
     <<"i", "n", "v", "a", "l", "i", "d">>,
     <<" ", "r", "e", "q", "u", "i", "r", "e", "d">>,
     <<"o", "o", "p", "s">>}

RECURSIVE MessagesOf(_)
MessagesOf(n) ==
    IF n = 0 THEN {<< >>}
    ELSE LET shorter == MessagesOf(n - 1) IN
         shorter \cup {m \o f : m \in shorter, f \in Fragments}

Messages == MessagesOf(MaxFragments)

InitClassify ==
    /\ InitTrackerEmpty
    /\ InitRecoveryIdle
    /\ errMsg \in Messages
    /\ classification = NoClassification
    /\ context = NoContext
    /\ strategy = Undefined

NextClassify == CallClassifyError

SpecClassify == InitClassify /\ [][NextClassify]_vars

----------------------------------------------------------------------------
(* Properties of the classification, checked under SpecClassify *)

\* two characters that are the same letter, whatever their case
SameLetter(a, b) ==
    \/ a = b
    \/ \E n \in 1..Len(UpperCase) : {a, b} = {UpperCase[n], LowerCase[n]}

\* the message holds one of the keywords, whatever the case of its letters
HasKeyword(message, keywords) ==
    \E k \in keywords :
        \E i \in 0..(Len(message) - Len(k)) :
            \A j \in 1..Len(k) : SameLetter(message[i + j], k[j])

\* C8: the type of a message is the first of network, session, system, user whose
\* keywords it holds (case-insensitively), unknown when it holds none; retryable is
\* true for network, system and unknown, false for session and user
C8_ClassificationPriority ==
    classification # NoClassification =>
        /\ classification.type =
              IF HasKeyword(errMsg, NetworkKeywords) THEN "network"
              ELSE IF HasKeyword(errMsg, SessionKeywords) THEN "session"
              ELSE IF HasKeyword(errMsg, SystemKeywords) THEN "system"
              ELSE IF HasKeyword(errMsg, UserKeywords) THEN "user"
              ELSE "unknown"
        /\ classification.retryable <=> classification.type \in {"network", "system", "unknown"}

\* C8 witness: a message with a session keyword and a network keyword, classified network
C8_Witness ==
    /\ classification # NoClassification
    /\ HasKeyword(errMsg, SessionKeywords)
    /\ HasKeyword(errMsg, NetworkKeywords)
    /\ classification.type = "network"

----------------------------------------------------------------------------
(* Error Recovery Engine: strategy selection *)

Min(a, b) == IF a < b THEN a ELSE b

\* determineRecoveryStrategy without the abort of user errors
determineRecoveryStrategy_NoUserAbort(cls, ctx) ==
    IF cls.type = "system" /\ cls.severity = "critical" THEN "defer"
    ELSE IF cls.type = "session" THEN
        IF ctx.retryCount = 0 /\ ctx.sessionId # Undefined THEN "retry" ELSE "fallback"
    ELSE IF cls.type = "network" THEN
        IF ctx.retryCount < ctx.maxRetries THEN "retry" ELSE "abort"
    ELSE IF cls.type = "system" THEN
        IF ctx.retryCount < Min(2, ctx.maxRetries) THEN "retry" ELSE "defer"
    ELSE
        IF ctx.retryCount < ctx.maxRetries THEN "retry" ELSE "fallback"

\* determineRecoveryStrategy with the session branch held to maxRetries as the others
determineRecoveryStrategy_SessionCeiling(cls, ctx) ==
    IF cls.type = "user" THEN "abort"
    ELSE IF cls.type = "system" /\ cls.severity = "critical" THEN "defer"
    ELSE IF cls.type = "session" THEN
        IF ctx.retryCount = 0 /\ ctx.retryCount < ctx.maxRetries /\ ctx.sessionId # Undefined
        THEN "retry" ELSE "fallback"
    ELSE IF cls.type = "network" THEN
        IF ctx.retryCount < ctx.maxRetries THEN "retry" ELSE "abort"
    ELSE IF cls.type = "system" THEN
        IF ctx.retryCount < Min(2, ctx.maxRetries) THEN "retry" ELSE "defer"
    ELSE
        IF ctx.retryCount < ctx.maxRetries THEN "retry" ELSE "fallback"

\* determineRecoveryStrategy with system errors retried up to maxRetries
determineRecoveryStrategy_SystemUncapped(cls, ctx) ==
    IF cls.type = "user" THEN "abort"
    ELSE IF cls.type = "system" /\ cls.severity = "critical" THEN "defer"
    ELSE IF cls.type = "session" THEN
        IF ctx.retryCount = 0 /\ ctx.sessionId # Undefined THEN "retry" ELSE "fallback"
    ELSE IF cls.type = "network" THEN
        IF ctx.retryCount < ctx.maxRetries THEN "retry" ELSE "abort"
    ELSE IF cls.type = "system" THEN
        IF ctx.retryCount < ctx.maxRetries THEN "retry" ELSE "defer"
    ELSE
        IF ctx.retryCount < ctx.maxRetries THEN "retry" ELSE "fallback"

\* determineRecoveryStrategy with unknown errors retried whatever the count
determineRecoveryStrategy_UnknownUnbounded(cls, ctx) ==
    IF cls.type = "user" THEN "abort"
    ELSE IF cls.type = "system" /\ cls.severity = "critical" THEN "defer"
    ELSE IF cls.type = "session" THEN
        IF ctx.retryCount = 0 /\ ctx.sessionId # Undefined THEN "retry" ELSE "fallback"
    ELSE IF cls.type = "network" THEN
        IF ctx.retryCount < ctx.maxRetries THEN "retry" ELSE "abort"
    ELSE IF cls.type = "system" THEN
        IF ctx.retryCount < Min(2, ctx.maxRetries) THEN "retry" ELSE "defer"
    ELSE "retry"

determineRecoveryStrategy(cls, ctx) ==
    IF cls.type = "user" THEN "abort"
    ELSE IF cls.type = "system" /\ cls.severity = "critical" THEN "defer"
    ELSE IF cls.type = "session" THEN
        IF ctx.retryCount = 0 /\ ctx.sessionId # Undefined THEN "retry" ELSE "fallback"
    ELSE IF cls.type = "network" THEN
        IF ctx.retryCount < ctx.maxRetries THEN "retry" ELSE "abort"
    ELSE IF cls.type = "system" THEN
        IF ctx.retryCount < Min(2, ctx.maxRetries) THEN "retry" ELSE "defer"
    ELSE
        IF ctx.retryCount < ctx.maxRetries THEN "retry" ELSE "fallback"

\* a caller asks for the strategy of the classification and context it holds
CallDetermineRecoveryStrategy ==
    /\ strategy = Undefined
    /\ strategy' = determineRecoveryStrategy(classification, context)
    /\ UNCHANGED <<trackerVars, errMsg, classification, context, sessionMetadata, diskVars, handlers>>

\* the contexts and classifications strategies are asked for
MaxCtxRetry == 3
MaxCtxMax == 3

ErrorTypes == {"network", "session", "system", "user", "unknown"}
Severities == {"low", "medium", "high", "critical"}
OperationTypes == {"chat", "load_conversation", "create_session"}

Classifications ==
    [type : ErrorTypes, severity : Severities,
     recoverable : BOOLEAN, retryable : BOOLEAN, permanent : BOOLEAN]

Contexts ==
    [sessionId : SessionIds \cup {Undefined}, operationType : OperationTypes,
     retryCount : 0..MaxCtxRetry, maxRetries : 0..MaxCtxMax]

InitStrategy ==
    /\ InitTrackerEmpty
    /\ InitRecoveryIdle
    /\ errMsg = << >>
    /\ classification \in Classifications
    /\ context \in Contexts
    /\ strategy = Undefined

NextStrategy == CallDetermineRecoveryStrategy

SpecStrategy == InitStrategy /\ [][NextStrategy]_vars

----------------------------------------------------------------------------
(* Properties of the strategy selection, checked under SpecStrategy *)

\* C10: with retryCount >= maxRetries, whatever the classification and the context,
\* the strategy is not retry
C10_MaxRetriesIsCeiling ==
    (strategy # Undefined /\ context.retryCount >= context.maxRetries) =>
        strategy # "retry"

\* C12: for a session-classified error the strategy is retry exactly when
\* retryCount is 0 and a sessionId is present, and fallback in every other case,
\* whatever maxRetries is
C12_SessionStrategy ==
    (strategy # Undefined /\ classification.type = "session") =>
        /\ (context.retryCount = 0 /\ context.sessionId \in SessionIds) => strategy = "retry"
        /\ (context.retryCount > 0 \/ context.sessionId \notin SessionIds) =>
               strategy = "fallback"

\* C12 witness: the free pass given although maxRetries is 0
C12_Witness ==
    /\ classification.type = "session"
    /\ context.retryCount = 0
    /\ context.maxRetries = 0
    /\ context.sessionId \in SessionIds
    /\ strategy = "retry"

\* the retries left to a caller that allows maxRetries, at most cap of them
RetriesLeft(ctx, cap) ==
    /\ ctx.retryCount < ctx.maxRetries
    /\ ctx.retryCount < cap

\* C13: network errors are retried while retryCount < maxRetries and aborted
\* otherwise; system errors that are not critical are retried while retryCount is
\* below both 2 and maxRetries and deferred otherwise; unknown errors are retried
\* while retryCount < maxRetries and fall back otherwise
C13_BoundedRetryTable ==
    strategy # Undefined =>
        /\ classification.type = "network" =>
               strategy = IF context.retryCount < context.maxRetries THEN "retry" ELSE "abort"
        /\ (classification.type = "system" /\ classification.severity # "critical") =>
               /\ strategy = IF RetriesLeft(context, 2) THEN "retry" ELSE "defer"
               /\ strategy = "retry" => context.retryCount \in {0, 1}
        /\ classification.type = "unknown" =>
               strategy = IF context.retryCount < context.maxRetries THEN "retry"
                          ELSE "fallback"

\* C13 witness: a system error deferred after two retries though the caller allows more
C13_Witness ==
    /\ classification.type = "system"
    /\ classification.severity = "high"
    /\ context.retryCount = 2
    /\ context.maxRetries > 2
    /\ strategy = "defer"

----------------------------------------------------------------------------
(* Persistent Session Store: what the recovery engine uses of it *)

\* the SessionMetadata the store's markSessionError leaves
storeErroredState(md, error) ==
    [md EXCEPT !.lastError = error,
               !.retryCount = md.retryCount + 1,
               !.isActive = md.retryCount + 1 < 3]

Stored(s) == s \in DOMAIN sessionMetadata

\* the value a call on the store returned
StoreVoid(op) == [op |-> op, val |-> Undefined]

\* the store's markSessionError marking every session it holds
storeMarked_All(s, error) ==
    IF Stored(s)
    THEN [x \in DOMAIN sessionMetadata |-> storeErroredState(sessionMetadata[x], error)]
    ELSE sessionMetadata

\* the store's map after its markSessionError(s, error)
storeMarked(s, error) ==
    IF Stored(s)
    THEN MapSet(sessionMetadata, s, storeErroredState(sessionMetadata[s], error))
    ELSE sessionMetadata

----------------------------------------------------------------------------
(* Error Recovery Engine: execution.  An invocation of handleError runs to  *)
(* its first await in one step, and from one await to the next in one step. *)

retryDelay == 1000
backoffMultiplier == 2

RECURSIVE Pow(_, _)
Pow(b, n) == IF n = 0 THEN 1 ELSE b * Pow(b, n - 1)

\* calculateRetryDelay without the ceiling
calculateRetryDelay_Uncapped(retryCount) ==
    retryDelay * Pow(backoffMultiplier, retryCount)

calculateRetryDelay(retryCount) ==
    Min(retryDelay * Pow(backoffMultiplier, retryCount), 30000)

\* `<tag>: ${context.errorMessage}`
Tagged(tag, ctx) == <<tag>> \o ctx.errorMessage

\* the retry result without the delay
retryResult_NoDelay(delay) == [success |-> TRUE, strategy |-> "retry"]

retryResult(delay) == [success |-> TRUE, strategy |-> "retry", retryAfter |-> delay]
fallbackResult == [success |-> TRUE, strategy |-> "fallback", newSessionId |-> Undefined]
abortResult ==
    [success |-> FALSE, strategy |-> "abort",
     error |-> "Operation aborted due to unrecoverable error"]
deferResult ==
    [success |-> FALSE, strategy |-> "defer",
     error |-> "Manual intervention required - please check system status"]

NoHeld == [live |-> FALSE]
NoHealth == [error |-> Undefined]
NoValidation == [error |-> Undefined]
NoResult == [strategy |-> Undefined]

\* the mark made with the bare error message
trackerMarked_Untagged(ctx, tag) ==
    IF ctx.sessionId # Undefined
    THEN markedStates(ctx.sessionId, ctx.errorMessage)
    ELSE sessionStates

\* the session the context names is marked in the tracker, if it names one
trackerMarked(ctx, tag) ==
    IF ctx.sessionId # Undefined
    THEN markedStates(ctx.sessionId, Tagged(tag, ctx))
    ELSE sessionStates

streakMarked(ctx) ==
    IF ctx.sessionId # Undefined THEN markedStreak(ctx.sessionId) ELSE streak

\* the marks stay within the bound of the model
MarkInBounds(ctx) ==
    /\ (ctx.sessionId # Undefined /\ Tracked(ctx.sessionId)) =>
           sessionStates[ctx.sessionId].retryCount < MaxRetryCount
    /\ (ctx.sessionId # Undefined /\ Stored(ctx.sessionId)) =>
           sessionMetadata[ctx.sessionId].retryCount < MaxRetryCount

Finished(h, hd, result) ==
    handlers' = [handlers EXCEPT ![h] = [hd EXCEPT !.pc = "done", !.result = result]]

\* executeFallback that leaves the store alone
executeFallback_TrackerOnly(h, hd) ==
    /\ MarkInBounds(hd.ctx)
    /\ sessionStates' = trackerMarked(hd.ctx, "Fallback triggered: ")
    /\ streak' = streakMarked(hd.ctx)
    /\ Finished(h, hd, fallbackResult)
    /\ UNCHANGED <<now, ret, engineVars, sessionMetadata, diskVars>>

executeFallback(h, hd) ==
    /\ MarkInBounds(hd.ctx)
    /\ sessionStates' = trackerMarked(hd.ctx, "Fallback triggered: ")
    /\ streak' = streakMarked(hd.ctx)
    /\ sessionMetadata' =
           IF hd.ctx.sessionId # Undefined
           THEN storeMarked(hd.ctx.sessionId, Tagged("Fallback recovery executed: ", hd.ctx))
           ELSE sessionMetadata
    /\ metadataFile' =
           IF hd.ctx.sessionId # Undefined /\ Stored(hd.ctx.sessionId)
           THEN saveMetadata(sessionMetadata')
           ELSE metadataFile
    /\ Finished(h, hd, fallbackResult)
    /\ UNCHANGED <<now, ret, engineVars, backups, backupTimer, config, backupDirExists, storeRet, insertion, trip>>

\* executeAbort that marks the store as the fallback does
executeAbort_MarksStore(h, hd) ==
    /\ MarkInBounds(hd.ctx)
    /\ sessionStates' = trackerMarked(hd.ctx, "Operation aborted: ")
    /\ streak' = streakMarked(hd.ctx)
    /\ sessionMetadata' =
           IF hd.ctx.sessionId # Undefined
           THEN storeMarked(hd.ctx.sessionId, Tagged("Operation aborted: ", hd.ctx))
           ELSE sessionMetadata
    /\ metadataFile' =
           IF hd.ctx.sessionId # Undefined /\ Stored(hd.ctx.sessionId)
           THEN saveMetadata(sessionMetadata')
           ELSE metadataFile
    /\ Finished(h, hd, abortResult)
    /\ UNCHANGED <<now, ret, engineVars, backups, backupTimer, config, backupDirExists, storeRet, insertion, trip>>

executeAbort(h, hd) ==
    /\ MarkInBounds(hd.ctx)
    /\ sessionStates' = trackerMarked(hd.ctx, "Operation aborted: ")
    /\ streak' = streakMarked(hd.ctx)
    /\ Finished(h, hd, abortResult)
    /\ UNCHANGED <<now, ret, engineVars, sessionMetadata, diskVars>>

\* executeDefer that resolves without marking the session
executeDefer_Unmarked(h, hd) ==
    /\ Finished(h, hd, deferResult)
    /\ UNCHANGED <<trackerVars, engineVars, sessionMetadata, diskVars>>

executeDefer(h, hd) ==
    /\ MarkInBounds(hd.ctx)
    /\ sessionStates' = trackerMarked(hd.ctx, "Manual intervention required: ")
    /\ streak' = streakMarked(hd.ctx)
    /\ Finished(h, hd, deferResult)
    /\ UNCHANGED <<now, ret, engineVars, sessionMetadata, diskVars>>

\* executeRetry marking the session before it waits
executeRetry_Marks(h, hd) ==
    /\ MarkInBounds(hd.ctx)
    /\ sessionStates' = trackerMarked(hd.ctx, "Retrying: ")
    /\ streak' = streakMarked(hd.ctx)
    /\ handlers' = [handlers EXCEPT ![h] =
           [hd EXCEPT !.pc = "backoff", !.delay = calculateRetryDelay(hd.ctx.retryCount)]]
    /\ UNCHANGED <<now, ret, engineVars, sessionMetadata, diskVars>>

\* executeRetry up to its wait for the backoff delay
executeRetry(h, hd) ==
    /\ handlers' = [handlers EXCEPT ![h] =
           [hd EXCEPT !.pc = "backoff", !.delay = calculateRetryDelay(hd.ctx.retryCount)]]
    /\ UNCHANGED <<trackerVars, engineVars, sessionMetadata, diskVars>>

executeRecovery(h, hd) ==
    CASE hd.decided = "retry" -> executeRetry(h, hd)
      [] hd.decided = "fallback" -> executeFallback(h, hd)
      [] hd.decided = "abort" -> executeAbort(h, hd)
      [] hd.decided = "defer" -> executeDefer(h, hd)

\* the errors handed to handleError
RecoveryErrors ==
    {<<"n", "e", "t", "w", "o", "r", "k", " ", "t", "i", "m", "e", "o", "u", "t">>,
     <<"s", "e", "s", "s", "i", "o", "n", " ", "n", "o", "t", " ", "f", "o", "u", "n", "d">>,
     <<"C", "l", "a", "u", "d", "e", " ", "C", "L", "I", " ", "c", "o", "m", "m", "a", "n", "d", " ", "f", "a", "i", "l", "e", "d">>,
     <<"v", "a", "l", "i", "d", "a", "t", "i", "o", "n", " ", "f", "a", "i", "l", "e", "d">>,
     <<"u", "n", "k", "n", "o", "w", "n", " ", "e", "r", "r", "o", "r", " ", "o", "c", "c", "u", "r", "r", "e", "d">>}

\* classifyError on each of them, computed once
classified == [error \in RecoveryErrors |-> classifyError(error)]

\* handleError(error, context): classify, determine the strategy, execute it
handleError(h, error, ctx) ==
    /\ handlers[h].pc \in {"idle", "done"}
    /\ LET cls == classified[error]
           hd == [pc |-> "start", ctx |-> ctx, type |-> cls.type,
                  decided |-> determineRecoveryStrategy(cls, ctx), delay |-> 0,
                  held |-> NoHeld, health |-> NoHealth, validation |-> NoValidation,
                  result |-> NoResult]
       IN executeRecovery(h, hd)

\* executeRetry validates the session of a chat, and no other
validates(ctx) == ctx.sessionId # Undefined /\ ctx.operationType = "chat"

\* the backoff timer fires: executeRetry goes on, into validateSessionForContinuation
\* and checkSessionHealth, which reads the tracked state and awaits the file path
backoffElapsed(h) ==
    LET hd == handlers[h] IN
    /\ hd.pc = "backoff"
    /\ handlers' = [handlers EXCEPT ![h] =
           IF ~validates(hd.ctx)
           THEN [hd EXCEPT !.pc = "done", !.result = retryResult(hd.delay)]
           ELSE IF Tracked(hd.ctx.sessionId)
           THEN [hd EXCEPT !.pc = "health", !.held = [live |-> TRUE]]
           ELSE [hd EXCEPT !.pc = "validate",
                           !.health = checkSessionHealth(hd.ctx.sessionId, "missing")]]
    /\ UNCHANGED <<trackerVars, engineVars, sessionMetadata, diskVars>>

\* checkSessionHealth goes on with the object it read: it looks at the file and
\* at the fields the object has by now
healthResumed(h, fs) ==
    LET hd == handlers[h]
        obj == IF hd.held.live THEN sessionStates[hd.ctx.sessionId] ELSE hd.held.st
    IN
    /\ hd.pc = "health"
    /\ handlers' = [handlers EXCEPT ![h] =
           [hd EXCEPT !.pc = "validate", !.held = NoHeld, !.health = healthOf(obj, fs)]]
    /\ UNCHANGED <<trackerVars, engineVars, sessionMetadata, diskVars>>

\* validateSessionForContinuation goes on with the health, and reads the map again
validationResumed(h) ==
    LET hd == handlers[h] IN
    /\ hd.pc = "validate"
    /\ handlers' = [handlers EXCEPT ![h] =
           [hd EXCEPT !.pc = "validated",
                      !.validation = validationOf(hd.ctx.sessionId, hd.health)]]
    /\ UNCHANGED <<trackerVars, engineVars, sessionMetadata, diskVars>>

\* executeRetry that goes on when the validation says shouldRetry
fallsBack_UnlessShouldRetry(validation) ==
    ~validation.canContinue /\ ~validation.shouldRetry

\* executeRetry falls back on a validation that cannot continue
fallsBack(validation) == ~validation.canContinue

\* executeRetry goes on with the validation
retryResumed(h) ==
    LET hd == handlers[h] IN
    /\ hd.pc = "validated"
    /\ IF fallsBack(hd.validation)
       THEN executeFallback(h, hd)
       ELSE /\ Finished(h, hd, retryResult(hd.delay))
            /\ UNCHANGED <<trackerVars, engineVars, sessionMetadata, diskVars>>

\* the contexts handed to handleError
MaxRecRetry == 1
MaxRecMax == 1

RecoveryContexts ==
    [sessionId : LiveIds \cup {Undefined}, operationType : {"chat", "load_conversation"},
     errorMessage : {<<"e1">>}, retryCount : 0..MaxRecRetry, maxRetries : 0..MaxRecMax]

\* the metadata.json the store loads at construction: none, or one with a session
\* saved by an earlier run, given by the order of its entries
BootOrders == {<< >>, <<"s1">>}

BootMetadata(s) ==
    [sessionId |-> s, projectPath |-> "/p1", model |-> Undefined, createdAt |-> StartTime,
     lastActivity |-> StartTime, messageCount |-> 0, isActive |-> TRUE,
     retryCount |-> 0, lastError |-> NoError]

BootFile(order) ==
    saveMetadata([s \in {order[i] : i \in 1..Len(order)} |-> BootMetadata(s)])

\* the tracker found no session file, or one: stale or recent
InitTrackerRecovery ==
    /\ now = StartTime
    /\ \/ sessionStates = << >>
       \/ \E s \in LiveIds, cwd \in BootPaths, mtime \in BootMTimes :
              sessionStates = [x \in {s} |-> bootState(cwd, mtime, mtime)]
    /\ ret = Void("constructor", Undefined)
    /\ streak = [s \in SessionIds |-> -1]

InitRecovery ==
    /\ InitTrackerRecovery
    /\ InitEngineIdle
    /\ \E order \in BootOrders : InitStoreLoaded(BootFile(order), order, << >>)
    /\ handlers = [h \in Handlers |-> IdleHandler]

NextRecovery ==
    \/ \E error \in RecoveryErrors, ctx \in RecoveryContexts : handleError("h1", error, ctx)
    \/ backoffElapsed("h1")
    \/ \E fs \in FileStates : healthResumed("h1", fs)
    \/ validationResumed("h1")
    \/ retryResumed("h1")

SpecRecovery == InitRecovery /\ [][NextRecovery]_vars

----------------------------------------------------------------------------
(* Properties of the execution, checked under SpecRecovery *)

\* C2: executeRetry of a chat context with a sessionId answers retry only if the
\* validation made after the backoff wait said canContinue; when it said the
\* session cannot continue, the answer is the fallback result
C2_RetryOnlyIfValidated ==
    /\ [][\A h \in Handlers :
            (handlers[h].pc = "validated" /\ handlers'[h].pc = "done") =>
                IF handlers[h].validation.canContinue
                THEN handlers'[h].result = retryResult(handlers[h].delay)
                ELSE handlers'[h].result = fallbackResult]_vars
    /\ [](\A h \in Handlers :
            (/\ handlers[h].pc = "done"
             /\ handlers[h].decided = "retry"
             /\ handlers[h].ctx.sessionId # Undefined
             /\ handlers[h].ctx.operationType = "chat"
             /\ handlers[h].result.strategy = "retry") =>
                /\ handlers[h].validation # NoValidation
                /\ handlers[h].validation.canContinue)

\* C2 witness: a retry of a chat handed back as fallback because the validation,
\* though it said shouldRetry, said the session cannot continue
C2_Witness ==
    \E h \in Handlers :
        /\ handlers[h].pc = "done"
        /\ handlers[h].decided = "retry"
        /\ handlers[h].validation # NoValidation
        /\ handlers[h].validation.shouldRetry
        /\ handlers[h].result = fallbackResult

\* C9: a user-classified error gets the abort strategy and handleError answers
\* abort with success = FALSE at once, without a backoff wait, whatever the context
C9_UserErrorAborts ==
    [][\A h \in Handlers :
        (/\ handlers[h].pc \in {"idle", "done"}
         /\ handlers'[h] # handlers[h]
         /\ handlers'[h].type = "user") =>
            /\ handlers'[h].decided = "abort"
            /\ handlers'[h].pc = "done"
            /\ handlers'[h].result.strategy = "abort"
            /\ ~handlers'[h].result.success]_vars

\* C9 witness: a user error with a sessionId and no retry made yet, aborted
C9_Witness ==
    \E h \in Handlers :
        /\ handlers[h].pc = "done"
        /\ handlers[h].type = "user"
        /\ handlers[h].ctx.sessionId # Undefined
        /\ handlers[h].ctx.retryCount = 0
        /\ handlers[h].ctx.maxRetries > 0
        /\ handlers[h].result = abortResult

----------------------------------------------------------------------------
(* A caller that hands the same failure to handleError again, with retryCount *)
(* one higher, each time the answer is retry                                  *)

MaxChainRetry == 1
MaxChainMax == 3

Max(a, b) == IF a > b THEN a ELSE b

ResubmitContexts ==
    [sessionId : LiveIds \cup {Undefined}, operationType : {"chat", "load_conversation"},
     errorMessage : {<<"e1">>}, retryCount : 0..MaxChainRetry, maxRetries : 0..MaxChainMax]

\* the caller hands the failure it holds to handleError
Submit(h) ==
    /\ \/ handlers[h].pc = "idle"
       \/ handlers[h].pc = "done" /\ handlers[h].ctx # context
    /\ handleError(h, errMsg, context)

\* the caller, answered retry, counts the retry in the context of its next call
Resubmitted(h) ==
    /\ handlers[h].pc = "done"
    /\ handlers[h].ctx = context
    /\ handlers[h].result.strategy = "retry"
    /\ context.retryCount <= Max(context.maxRetries, MaxChainMax)
    /\ context' = [context EXCEPT !.retryCount = @ + 1]
    /\ UNCHANGED <<trackerVars, errMsg, classification, strategy, sessionMetadata, diskVars, handlers>>

InitCaller ==
    /\ InitTrackerRecovery
    /\ \E order \in BootOrders : InitStoreLoaded(BootFile(order), order, << >>)
    /\ handlers = [h \in Handlers |-> IdleHandler]
    /\ errMsg \in RecoveryErrors
    /\ classification = NoClassification
    /\ strategy = Undefined

InitResubmit ==
    /\ InitCaller
    /\ context \in ResubmitContexts

NextResubmit ==
    \/ Submit("h1")
    \/ Resubmitted("h1")
    \/ backoffElapsed("h1")
    \/ \E fs \in FileStates : healthResumed("h1", fs)
    \/ validationResumed("h1")
    \/ retryResumed("h1")

\* timers fire, promises settle and the caller makes its next call
SpecResubmit == InitResubmit /\ [][NextResubmit]_vars /\ WF_vars(NextResubmit)

----------------------------------------------------------------------------
(* Properties of repeated recovery, checked under SpecResubmit *)

Answered(h) == handlers[h].pc = "done"

\* C11 as stated: the last answer of the calls for an error that is not a user
\* error, the one that is not retry, is abort or defer
C11_TerminalIsAbortOrDefer ==
    (/\ Answered("h1")
     /\ handlers["h1"].type # "user"
     /\ handlers["h1"].result.strategy # "retry") =>
        handlers["h1"].result.strategy \in {"abort", "defer"}

\* C11: the calls for one failure, retryCount one higher after every retry answer,
\* get retry only while retryCount is below the larger of maxRetries and 1, and
\* come to an answer that is abort, defer or fallback
C11_BoundedRetries ==
    /\ [](\A h \in Handlers :
            (Answered(h) /\ handlers[h].result.strategy = "retry") =>
                handlers[h].ctx.retryCount < Max(handlers[h].ctx.maxRetries, 1))
    /\ <>(/\ Answered("h1")
          /\ handlers["h1"].ctx = context
          /\ handlers["h1"].result.strategy \in {"abort", "defer", "fallback"})

\* C11 witness: a network failure retried until retryCount reached maxRetries,
\* more than once, then aborted
C11_Witness ==
    /\ Answered("h1")
    /\ handlers["h1"].type = "network"
    /\ handlers["h1"].ctx.retryCount = handlers["h1"].ctx.maxRetries
    /\ handlers["h1"].ctx.retryCount > MaxChainRetry + 1
    /\ handlers["h1"].result = abortResult

----------------------------------------------------------------------------
(* The backoff delays of a caller allowed enough retries to reach the ceiling *)

MaxDelayMax == 6

DelayContexts ==
    [sessionId : LiveIds \cup {Undefined}, operationType : {"chat", "load_conversation"},
     errorMessage : {<<"e1">>}, retryCount : {0}, maxRetries : {MaxDelayMax}]

InitDelay ==
    /\ InitCaller
    /\ context \in DelayContexts

SpecDelay == InitDelay /\ [][NextResubmit]_vars

\* an invocation that took the retry path, at or past its backoff wait
Retrying(hd) == hd.pc # "idle" /\ hd.decided = "retry"

\* C14: the backoff delay for retryCount n is min(1000 * 2^n, 30000): 1000 for
\* n = 0, never above 30000, from one retry to the next doubled up to the ceiling
\* and never smaller; a retry answer carries it as retryAfter
C14_BackoffDelay ==
    /\ [](\A h \in Handlers : Retrying(handlers[h]) =>
            LET n == handlers[h].ctx.retryCount
                delay == handlers[h].delay
            IN /\ delay = IF 1000 * 2^n < 30000 THEN 1000 * 2^n ELSE 30000
               /\ n = 0 => delay = 1000
               /\ delay <= 30000
               /\ (Answered(h) /\ handlers[h].result.strategy = "retry") =>
                      handlers[h].result.retryAfter = delay)
    /\ [][\A h \in Handlers :
            (/\ Answered(h)
             /\ Retrying(handlers[h])
             /\ handlers'[h] # handlers[h]
             /\ Retrying(handlers'[h])
             /\ handlers'[h].ctx.retryCount = handlers[h].ctx.retryCount + 1) =>
                /\ handlers'[h].delay >= handlers[h].delay
                /\ handlers'[h].delay =
                       IF 2 * handlers[h].delay < 30000 THEN 2 * handlers[h].delay
                       ELSE 30000]_vars

\* C14 witness: the retry whose doubled delay would pass the ceiling, answered
\* with the ceiling
C14_Witness ==
    /\ Answered("h1")
    /\ handlers["h1"].ctx.retryCount = 5
    /\ handlers["h1"].result = retryResult(30000)

----------------------------------------------------------------------------
(* Properties of the executed strategies, checked under SpecRecovery *)

\* handler h comes to its answer in this step, by the given strategy
Answers(h, strat) ==
    /\ handlers[h].pc \in {"idle", "done", "validated"}
    /\ handlers'[h].pc = "done"
    /\ handlers'[h].result.strategy = strat

\* map after is map before with the entry of s, if there is one, marked once with
\* the error text, and nothing else changed
MarkedOnce(before, after, s, text) ==
    /\ DOMAIN after = DOMAIN before
    /\ \A k \in DOMAIN before : k # s => after[k] = before[k]
    /\ s \in DOMAIN before =>
           /\ after[s].retryCount = before[s].retryCount + 1
           /\ after[s].lastError = text
           /\ after[s].createdAt = before[s].createdAt
           /\ after[s].messageCount = before[s].messageCount

\* the fallback of handler h marks tracker and store with these two tags
FallbackMarks(h, trackerTag, storeTag) ==
    LET ctx == handlers'[h].ctx IN
    /\ handlers'[h].result =
           [success |-> TRUE, strategy |-> "fallback", newSessionId |-> Undefined]
    /\ IF ctx.sessionId # Undefined
       THEN /\ MarkedOnce(sessionStates, sessionStates', ctx.sessionId,
                          <<trackerTag>> \o ctx.errorMessage)
            /\ MarkedOnce(sessionMetadata, sessionMetadata', ctx.sessionId,
                          <<storeTag>> \o ctx.errorMessage)
       ELSE UNCHANGED <<sessionStates, sessionMetadata>>

\* C15 as stated: the fallback marks the session of the context once in the
\* tracker and once in the store, in both with "Fallback triggered: <errorMessage>"
C15_FallbackTaggedAlike ==
    [][\A h \in Handlers : Answers(h, "fallback") =>
          FallbackMarks(h, "Fallback triggered: ", "Fallback triggered: ")]_vars

\* C15: the fallback marks the session of the context, where it is tracked and
\* where it is stored, once in the tracker with "Fallback triggered: <errorMessage>"
\* and once in the store with "Fallback recovery executed: <errorMessage>", answers
\* {success: true, strategy: fallback, newSessionId: undefined} and adds no session
C15_FallbackMarksBoth ==
    [][\A h \in Handlers : Answers(h, "fallback") =>
          FallbackMarks(h, "Fallback triggered: ", "Fallback recovery executed: ")]_vars

\* C15 witness: a fallback that left its mark in the tracker and in the store
C15_Witness ==
    \E h \in Handlers, s \in LiveIds :
        /\ Answered(h)
        /\ handlers[h].result = fallbackResult
        /\ handlers[h].ctx.sessionId = s
        /\ Tracked(s) /\ Stored(s)
        /\ sessionStates[s].lastError = <<"Fallback triggered: ", "e1">>
        /\ sessionMetadata[s].lastError = <<"Fallback recovery executed: ", "e1">>

\* C16: abort marks the session of the context once in the tracker with
\* "Operation aborted: <errorMessage>" and answers the abort result; defer marks it
\* once with "Manual intervention required: <errorMessage>" and answers the defer
\* result; neither touches the store
C16_AbortDeferMarkOnce ==
    [][\A h \in Handlers :
          /\ Answers(h, "abort") =>
                /\ handlers'[h].result =
                       [success |-> FALSE, strategy |-> "abort",
                        error |-> "Operation aborted due to unrecoverable error"]
                /\ IF handlers'[h].ctx.sessionId # Undefined
                   THEN MarkedOnce(sessionStates, sessionStates', handlers'[h].ctx.sessionId,
                                   <<"Operation aborted: ">> \o handlers'[h].ctx.errorMessage)
                   ELSE UNCHANGED sessionStates
                /\ UNCHANGED sessionMetadata
          /\ Answers(h, "defer") =>
                /\ handlers'[h].result =
                       [success |-> FALSE, strategy |-> "defer",
                        error |-> "Manual intervention required - please check system status"]
                /\ IF handlers'[h].ctx.sessionId # Undefined
                   THEN MarkedOnce(sessionStates, sessionStates', handlers'[h].ctx.sessionId,
                                   <<"Manual intervention required: ">>
                                       \o handlers'[h].ctx.errorMessage)
                   ELSE UNCHANGED sessionStates
                /\ UNCHANGED sessionMetadata]_vars

\* C16 witness: a deferred system error whose session carries the mark of the defer
C16_Witness ==
    \E h \in Handlers, s \in LiveIds :
        /\ Answered(h)
        /\ handlers[h].result = deferResult
        /\ handlers[h].ctx.sessionId = s
        /\ Tracked(s)
        /\ sessionStates[s].retryCount > 0
        /\ sessionStates[s].lastError = <<"Manual intervention required: ", "e1">>

\* C17: handleError answers with one of the four strategies, the one
\* determineRecoveryStrategy chose or fallback in place of a chosen retry, and a
\* retry answer carries a number as retryAfter
C17_ResultStrategy ==
    \A h \in Handlers : Answered(h) =>
        /\ handlers[h].result.strategy \in {"retry", "fallback", "abort", "defer"}
        /\ \/ handlers[h].result.strategy = handlers[h].decided
           \/ handlers[h].decided = "retry" /\ handlers[h].result.strategy = "fallback"
        /\ handlers[h].result.strategy = "retry" =>
               /\ "retryAfter" \in DOMAIN handlers[h].result
               /\ handlers[h].result.retryAfter \in Nat

\* C17 witness: a network error answered with retry and the delay to wait
C17_Witness ==
    \E h \in Handlers :
        /\ Answered(h)
        /\ handlers[h].type = "network"
        /\ handlers[h].decided = "retry"
        /\ handlers[h].result.strategy = "retry"
        /\ handlers[h].result.retryAfter = 1000


\* C38: an abort or a defer leaves every store entry and metadata.json as they
\* were and adds 1 to the tracker's retryCount of the session of the context, so
\* that the tracker's count is ahead of the store's by one more than before
C38_AbortDeferSpareStore ==
    [][\A h \in Handlers :
        (Answers(h, "abort") \/ Answers(h, "defer")) =>
            LET s == handlers'[h].ctx.sessionId IN
            /\ sessionMetadata' = sessionMetadata
            /\ metadataFile' = metadataFile
            /\ (s # Undefined /\ Tracked(s)) =>
                   sessionStates'[s].retryCount = sessionStates[s].retryCount + 1
            /\ (s # Undefined /\ Tracked(s) /\ Stored(s)) =>
                   sessionStates'[s].retryCount - sessionMetadata'[s].retryCount =
                       sessionStates[s].retryCount - sessionMetadata[s].retryCount + 1]_vars

\* C38 witness: after a defer the tracker has counted two failures more than the
\* store for a session both hold
C38_Witness ==
    \E h \in Handlers, s \in LiveIds :
        /\ Answered(h)
        /\ handlers[h].result = deferResult
        /\ handlers[h].ctx.sessionId = s
        /\ Tracked(s) /\ Stored(s)
        /\ sessionStates[s].retryCount >= sessionMetadata[s].retryCount + 2

\* handler h has its answer after the step, by one of the marking strategies, for
\* a context that names a session
AnswersMarking(h) ==
    /\ handlers'[h].pc = "done"
    /\ handlers'[h].result.strategy \in {"fallback", "abort", "defer"}
    /\ handlers'[h].ctx.sessionId # Undefined

\* C39 as stated: a step of handleError changes a tracker entry or a store entry
\* only if the call answers fallback, abort or defer and its context names a
\* tracked session
C39_MarksOnlyTracked ==
    [][(sessionStates' # sessionStates \/ sessionMetadata' # sessionMetadata) =>
          \E h \in Handlers :
              /\ AnswersMarking(h)
              /\ Tracked(handlers'[h].ctx.sessionId)]_vars

\* C39: a step of handleError changes a tracker entry only if the call answers
\* fallback, abort or defer and its context names a tracked session, and a store
\* entry only if the call answers fallback and its context names a stored session;
\* a call that answers retry and a call without sessionId change neither
C39_MarksOnlyKnown ==
    /\ [][sessionStates' # sessionStates =>
            \E h \in Handlers :
                /\ AnswersMarking(h)
                /\ Tracked(handlers'[h].ctx.sessionId)]_vars
    /\ [][(sessionMetadata' # sessionMetadata \/ metadataFile' # metadataFile) =>
            \E h \in Handlers :
                /\ AnswersMarking(h)
                /\ handlers'[h].result.strategy = "fallback"
                /\ Stored(handlers'[h].ctx.sessionId)]_vars

\* C39 witness: a retry of a chat answered after the validation, the session
\* never marked in tracker or store
C39_Witness ==
    \E h \in Handlers, s \in LiveIds :
        /\ Answered(h)
        /\ handlers[h].result.strategy = "retry"
        /\ handlers[h].validation # NoValidation
        /\ handlers[h].ctx.sessionId = s
        /\ Tracked(s) /\ Stored(s)
        /\ sessionStates[s].retryCount = 0
        /\ sessionMetadata[s].retryCount = 0

----------------------------------------------------------------------------
(* Persistent Session Store: its operations *)

StoreProjectPaths == {"/p1", "/p2"}

\* the SessionMetadata handed to storeSession at time t
MetadataInputs(paths, t) ==
    [sessionId : SessionIds, projectPath : paths, model : {Undefined},
     createdAt : {t}, lastActivity : {t}, messageCount : {0}, isActive : BOOLEAN,
     retryCount : {0}, lastError : {NoError}]

\* Map.set: a new key goes last, a key the Map has keeps its place
inserted(order, s) ==
    IF \E i \in 1..Len(order) : order[i] = s THEN order ELSE Append(order, s)

\* Map.delete
deleted(order, s) == SelectSeq(order, LAMBDA k : k # s)

MapDelete(map, s) == [x \in DOMAIN map \ {s} |-> map[x]]

storeSession(metadata) ==
    /\ sessionMetadata' = MapSet(sessionMetadata, metadata.sessionId, metadata)
    /\ insertion' = inserted(insertion, metadata.sessionId)
    /\ metadataFile' = saveMetadata(sessionMetadata')
    /\ storeRet' = StoreVoid("storeSession")
    /\ trip' = NoTrip
    /\ UNCHANGED <<trackerVars, engineVars, handlers, backups, backupTimer, config, backupDirExists>>

removeSession(s) ==
    /\ sessionMetadata' = MapDelete(sessionMetadata, s)
    /\ insertion' = deleted(insertion, s)
    /\ metadataFile' = IF Stored(s) THEN saveMetadata(sessionMetadata') ELSE metadataFile
    /\ storeRet' = [op |-> "removeSession", val |-> Stored(s)]
    /\ trip' = NoTrip
    /\ UNCHANGED <<trackerVars, engineVars, handlers, backups, backupTimer, config, backupDirExists>>

\* an optional argument is the sequence of what was passed; increment is true
\* when nothing was
incrementOf(arg) == IF arg = << >> THEN TRUE ELSE arg[1]

\* the store's updateSessionActivity counting a message whatever increment is
storeActiveState_AlwaysCounts(md, increment) ==
    [md EXCEPT !.lastActivity = now,
               !.messageCount = md.messageCount + 1,
               !.isActive = TRUE]

\* the SessionMetadata the store's updateSessionActivity leaves
storeActiveState(md, increment) ==
    [md EXCEPT !.lastActivity = now,
               !.messageCount = IF increment THEN md.messageCount + 1 ELSE md.messageCount,
               !.isActive = TRUE]

storeUpdateSessionActivity(s, arg) ==
    /\ Stored(s) => sessionMetadata[s].messageCount < MaxMessages
    /\ sessionMetadata' =
           IF Stored(s)
           THEN MapSet(sessionMetadata, s,
                       storeActiveState(sessionMetadata[s], incrementOf(arg)))
           ELSE sessionMetadata
    /\ metadataFile' = IF Stored(s) THEN saveMetadata(sessionMetadata') ELSE metadataFile
    /\ storeRet' = [op |-> "updateSessionActivity", sid |-> s, arg |-> arg,
                    val |-> Undefined]
    /\ trip' = NoTrip
    /\ UNCHANGED <<trackerVars, engineVars, handlers, backups, backupTimer, config,
                   backupDirExists, insertion>>

\* Array.from(this.sessionMetadata.values())
Values(map, order) == [i \in 1..Len(order) |-> map[order[i]]]

\* a filter is the record of the fields it gives
Given(filter, k) == k \in DOMAIN filter

\* the three filter steps of getSessions: isActive when it is not undefined,
\* projectPath and since when they are truthy
filtered(sessions, filter) ==
    LET byActive ==
            IF Given(filter, "isActive")
            THEN SelectSeq(sessions, LAMBDA s : s.isActive = filter.isActive)
            ELSE sessions
        byPath ==
            IF Given(filter, "projectPath") /\ filter.projectPath # ""
            THEN SelectSeq(byActive, LAMBDA s : s.projectPath = filter.projectPath)
            ELSE byActive
    IN IF Given(filter, "since") /\ filter.since # 0
       THEN SelectSeq(byPath, LAMBDA s : s.lastActivity > filter.since)
       ELSE byPath

\* x put behind the sessions of a sorted list that are not older than it
insertedByActivity(sorted, x) ==
    LET ahead == SelectSeq(sorted, LAMBDA s : s.lastActivity >= x.lastActivity)
        behind == SelectSeq(sorted, LAMBDA s : s.lastActivity < x.lastActivity)
    IN ahead \o <<x>> \o behind

\* sessions.sort((a, b) => b.lastActivity - a.lastActivity), a stable sort
RECURSIVE sortByActivity(_)
sortByActivity(sessions) ==
    IF sessions = << >> THEN << >>
    ELSE insertedByActivity(sortByActivity(SubSeq(sessions, 1, Len(sessions) - 1)),
                            sessions[Len(sessions)])

getSessionsOf(map, order, filter) == sortByActivity(filtered(Values(map, order), filter))

getSessions(filter) ==
    /\ storeRet' = [op |-> "getSessions", filter |-> filter,
                    val |-> getSessionsOf(sessionMetadata, insertion, filter)]
    /\ UNCHANGED <<trackerVars, engineVars, handlers, sessionMetadata, metadataFile,
                   backups, backupTimer, config, backupDirExists, insertion, trip>>

\* the filters asked for: each field given or not
FilterPaths == {"", "/p1"}
FilterSince == {0, StartTime}

Filters ==
    {<< >>} \cup [isActive : BOOLEAN] \cup [projectPath : FilterPaths]
        \cup [since : FilterSince]
        \cup [isActive : BOOLEAN, projectPath : FilterPaths]
        \cup [isActive : BOOLEAN, since : FilterSince]
        \cup [projectPath : FilterPaths, since : FilterSince]
        \cup [isActive : BOOLEAN, projectPath : FilterPaths, since : FilterSince]

InitQuery ==
    /\ InitTrackerEmpty
    /\ InitEngineIdle
    /\ InitRecoveryIdle

NextQuery ==
    \/ \E metadata \in MetadataInputs(StoreProjectPaths, now) : storeSession(metadata)
    \/ \E s \in SessionIds : removeSession(s)
    \/ \E filter \in Filters : getSessions(filter)
    \/ Tick

SpecQuery == InitQuery /\ [][NextQuery]_vars

----------------------------------------------------------------------------
(* Properties of getSessions, checked under SpecQuery *)

\* stored session md satisfies every field the filter gives
Satisfies(md, filter) ==
    /\ Given(filter, "isActive") => md.isActive = filter.isActive
    /\ Given(filter, "projectPath") => md.projectPath = filter.projectPath
    /\ Given(filter, "since") => md.lastActivity > filter.since

Listed(list) == {list[i] : i \in 1..Len(list)}

\* C18: getSessions(filter) returns exactly the stored sessions that satisfy all the
\* fields the filter gives, each once, ordered by lastActivity descending; with no
\* filter, all stored sessions in that order
C18_GetSessionsFilters ==
    storeRet.op = "getSessions" =>
        LET list == storeRet.val IN
        /\ Listed(list) =
               {sessionMetadata[s] : s \in {k \in DOMAIN sessionMetadata :
                                               Satisfies(sessionMetadata[k], storeRet.filter)}}
        /\ \A i, j \in 1..Len(list) :
               /\ i < j => list[i].lastActivity >= list[j].lastActivity
               /\ i # j => list[i].sessionId # list[j].sessionId

----------------------------------------------------------------------------
(* Persistent Session Store: backup and restore.  A backup file              *)
(* backup-<timestamp>.json is known by its timestamp.                        *)

\* the decimal digits of a timestamp, as `backup-${timestamp}.json` spells them
RECURSIVE Digits(_)
Digits(n) == IF n < 10 THEN <<n>> ELSE Append(Digits(n \div 10), n % 10)

\* the order of two file names as strings: after the digits comes ".json", and "."
\* sorts before every digit
RECURSIVE digitsBefore(_, _)
digitsBefore(a, b) ==
    IF a = << >> THEN b # << >>
    ELSE IF b = << >> THEN FALSE
    ELSE IF Head(a) # Head(b) THEN Head(a) < Head(b)
    ELSE digitsBefore(Tail(a), Tail(b))

nameBefore(t1, t2) == digitsBefore(Digits(t1), Digits(t2))

\* backups.sort().reverse()[0]
latestBackup(dir) ==
    CHOOSE t \in DOMAIN dir : \A u \in DOMAIN dir \ {t} : nameBefore(u, t)

backupData(active, t) ==
    [timestamp |-> t, sessionCount |-> Len(active),
     sessions |-> [i \in 1..Len(active) |-> stringify(active[i])]]

\* cleanupOldBackups keeping the files whose names sort last
cleanupOldBackups_ByName(dir) ==
    [t \in {k \in DOMAIN dir :
                Cardinality({u \in DOMAIN dir : nameBefore(k, u)}) < config.maxBackups}
        |-> dir[t]]

\* cleanupOldBackups: the maxBackups files of the greatest timestamps stay
cleanupOldBackups(dir) ==
    [t \in {k \in DOMAIN dir : Cardinality({u \in DOMAIN dir : u > k}) < config.maxBackups}
        |-> dir[t]]

\* performBackup writing every session of the map, active or not
backedUp_AllSessions(dir, map, order, t) ==
    LET sessions == getSessionsOf(map, order, << >>) IN
    IF sessions = << >> \/ ~backupDirExists THEN dir
    ELSE cleanupOldBackups(MapSet(dir, t, backupData(sessions, t)))

\* the backups directory after performBackup at time t: nothing is written when no
\* session is active, and writeFileSync throws into the catch when the directory
\* is not there
backedUp(dir, map, order, t) ==
    LET activeSessions == getSessionsOf(map, order, [isActive |-> TRUE]) IN
    IF activeSessions = << >> \/ ~backupDirExists THEN dir
    ELSE cleanupOldBackups(MapSet(dir, t, backupData(activeSessions, t)))

performBackup ==
    /\ backups' = backedUp(backups, sessionMetadata, insertion, now)
    /\ storeRet' = StoreVoid("performBackup")
    /\ trip' = [phase |-> "backedUp", map |-> sessionMetadata]
    /\ UNCHANGED <<trackerVars, engineVars, handlers, sessionMetadata, metadataFile,
                   backupTimer, config, backupDirExists, insertion>>

\* the in-memory map is cleared after a backup, the disk left as it is
clear ==
    /\ trip.phase = "backedUp"
    /\ sessionMetadata' = << >>
    /\ insertion' = << >>
    /\ storeRet' = StoreVoid("clear")
    /\ trip' = [trip EXCEPT !.phase = "cleared"]
    /\ UNCHANGED <<trackerVars, engineVars, handlers, metadataFile, backups, backupTimer, config, backupDirExists>>

\* restore that keeps only the sessions of the backup
merged_Replaced(map, sessions) ==
    [s \in {sessions[i].sessionId : i \in 1..Len(sessions)} |->
        parsed(sessions[CHOOSE i \in 1..Len(sessions) : sessions[i].sessionId = s])]

\* for (const session of backupData.sessions) this.sessionMetadata.set(...)
RECURSIVE merged(_, _)
merged(map, sessions) ==
    IF sessions = << >> THEN map
    ELSE merged(MapSet(map, Head(sessions).sessionId, parsed(Head(sessions))),
                Tail(sessions))

RECURSIVE mergedOrder(_, _)
mergedOrder(order, sessions) ==
    IF sessions = << >> THEN order
    ELSE mergedOrder(inserted(order, Head(sessions).sessionId), Tail(sessions))

\* the file restoreFromBackup reads: the one named, else the latest, if there is one
backupPath(backupFile) ==
    IF backupFile # << >> THEN backupFile
    ELSE IF DOMAIN backups = {} THEN << >>
    ELSE <<latestBackup(backups)>>

\* a backup file that is not JSON
Garbled == [garbled |-> TRUE]

isGarbled(content) == "garbled" \in DOMAIN content

\* a null among the sessions of a backup file
NullEntry == [null |-> TRUE]

isNull(json) == "null" \in DOMAIN json

\* the entries the loop of restoreFromBackup sets before session.sessionId throws
\* on a null
RECURSIVE entriesBeforeNull(_)
entriesBeforeNull(sessions) ==
    IF sessions = << >> \/ isNull(Head(sessions)) THEN << >>
    ELSE <<Head(sessions)>> \o entriesBeforeNull(Tail(sessions))

\* the try block of restoreFromBackup: it returns, or something in it throws;
\* readdirSync throws without the directory, readFileSync without the file,
\* JSON.parse on a file that is not JSON, the loop on an entry that is null; read
\* is the file whose entries the loop went through
restoreTried(backupFile) ==
    IF backupFile = << >> /\ ~backupDirExists
    THEN [raised |-> TRUE, val |-> FALSE, read |-> << >>]
    ELSE IF backupFile = << >> /\ DOMAIN backups = {}
    THEN [raised |-> FALSE, val |-> FALSE, read |-> << >>]
    ELSE LET path == backupPath(backupFile)[1] IN
         IF ~(path \in DOMAIN backups) THEN [raised |-> TRUE, val |-> FALSE, read |-> << >>]
         ELSE IF isGarbled(backups[path])
         THEN [raised |-> TRUE, val |-> FALSE, read |-> << >>]
         ELSE [raised |-> \E i \in 1..Len(backups[path].sessions) :
                             isNull(backups[path].sessions[i]),
               val |-> TRUE, read |-> <<path>>]

\* restoreFromBackup without its catch
restoreCaught_Uncaught(tried) ==
    [val |-> ~tried.raised /\ tried.val, thrown |-> tried.raised]

\* the catch of restoreFromBackup: what was thrown becomes the return of false
restoreCaught(tried) ==
    [val |-> ~tried.raised /\ tried.val, thrown |-> FALSE]

\* the round trip goes on with a restore that names no file, and ends with any other
tripRestored(backupFile) ==
    IF backupFile = << >> /\ trip.phase \in {"cleared", "restored", "restoredTwice"}
    THEN [trip EXCEPT !.phase = IF @ = "cleared" THEN "restored" ELSE "restoredTwice"]
    ELSE NoTrip

restoreFromBackup(backupFile) ==
    LET tried == restoreTried(backupFile)
        outcome == restoreCaught(tried)
        found == outcome.val
    IN
    /\ sessionMetadata' =
           IF tried.read # << >>
           THEN merged(sessionMetadata, entriesBeforeNull(backups[tried.read[1]].sessions))
           ELSE sessionMetadata
    /\ insertion' =
           IF tried.read # << >>
           THEN mergedOrder(insertion, entriesBeforeNull(backups[tried.read[1]].sessions))
           ELSE insertion
    /\ metadataFile' = IF found THEN saveMetadata(sessionMetadata') ELSE metadataFile
    /\ storeRet' = [op |-> "restoreFromBackup", backupFile |-> backupFile, val |-> found,
                    thrown |-> outcome.thrown]
    /\ trip' = tripRestored(backupFile)
    /\ UNCHANGED <<trackerVars, engineVars, handlers, backups, backupTimer, config, backupDirExists>>

\* the backup an earlier run wrote at time t, of one session
OldBackup(t) ==
    backupData(<<[BootMetadata("s2") EXCEPT !.createdAt = t, !.lastActivity = t]>>, t)

\* the backups an earlier run left in the directory: none; one; one whose timestamp
\* has a digit less than the clock has now; as many as are kept
BootBackups ==
    {<< >>,
     [t \in {StartTime - TickMs} |-> OldBackup(t)],
     [t \in {StartTime - 3 * TickMs} |-> OldBackup(t)],
     [t \in {StartTime - k * (TickMs \div 10) : k \in 1..maxBackups} |-> OldBackup(t)]}

\* the store the tests construct: no backup timer, three backups kept
TestConfig == [backupEnabled |-> FALSE, maxBackups |-> 3]

\* three backups of earlier runs, the oldest with a digit less in its name
ThreeBackups == [t \in {StartTime - k * TickMs : k \in 1..3} |-> OldBackup(t)]

\* the files named to restoreFromBackup
BackupFiles == {<< >>, <<StartTime - TickMs>>, <<StartTime>>}

InitBackup ==
    /\ InitTrackerEmpty
    /\ InitEngineIdle
    /\ handlers = [h \in Handlers |-> IdleHandler]
    /\ \/ \E dir \in BootBackups : InitStoreLoaded(<< >>, << >>, dir)
       \/ InitStore(TestConfig, << >>, << >>, ThreeBackups)

NextBackup ==
    \/ \E metadata \in MetadataInputs(StoreProjectPaths, now) : storeSession(metadata)
    \/ performBackup
    \/ clear
    \/ \E backupFile \in BackupFiles : restoreFromBackup(backupFile)

SpecBackup == InitBackup /\ [][NextBackup]_vars

----------------------------------------------------------------------------
(* The store in use: sessions stored, touched and removed as time passes *)

\* what is passed for increment: nothing, true or false
IncrementArgs == {<< >>, <<TRUE>>, <<FALSE>>}

InitStoreOps ==
    /\ InitTrackerEmpty
    /\ InitEngineIdle
    /\ handlers = [h \in Handlers |-> IdleHandler]
    /\ \E order \in BootOrders : InitStoreLoaded(BootFile(order), order, << >>)

NextStoreOps ==
    \/ \E metadata \in MetadataInputs({"/p1"}, now) : storeSession(metadata)
    \/ \E s \in SessionIds, arg \in IncrementArgs : storeUpdateSessionActivity(s, arg)
    \/ \E s \in SessionIds : removeSession(s)
    \/ Tick

SpecStoreOps == InitStoreOps /\ [][NextStoreOps]_vars

\* C27: the store's updateSessionActivity(sessionId, increment) on a stored session
\* sets lastActivity to now and isActive to TRUE, adds exactly 1 to messageCount
\* when increment is true or not passed and keeps messageCount when it is false; on
\* an unknown sessionId it changes neither the map nor metadata.json
C27_StoreActivity ==
    [][\A s \in SessionIds, arg \in IncrementArgs :
        storeUpdateSessionActivity(s, arg) =>
            IF s \in DOMAIN sessionMetadata
            THEN /\ DOMAIN sessionMetadata' = DOMAIN sessionMetadata
                 /\ sessionMetadata'[s].lastActivity = now
                 /\ sessionMetadata'[s].isActive
                 /\ sessionMetadata'[s].messageCount =
                        sessionMetadata[s].messageCount + (IF arg = <<FALSE>> THEN 0 ELSE 1)
            ELSE /\ sessionMetadata' = sessionMetadata
                 /\ ~(s \in DOMAIN sessionMetadata')
                 /\ metadataFile' = metadataFile]_vars

\* C27 witness: a session counted once is touched, later than it was created, with
\* increment false: it is active and its count is still 1
C27_Witness ==
    /\ storeRet.op = "updateSessionActivity"
    /\ storeRet.arg = <<FALSE>>
    /\ storeRet.sid \in DOMAIN sessionMetadata
    /\ sessionMetadata[storeRet.sid].messageCount = 1
    /\ sessionMetadata[storeRet.sid].lastActivity = now
    /\ sessionMetadata[storeRet.sid].createdAt < now
    /\ sessionMetadata[storeRet.sid].isActive

----------------------------------------------------------------------------
(* The backup timer and the shutdown of the store.  The timer fires when it *)
(* is armed; the backups directory can be taken away under the running     *)
(* store, and a backup file can hold something that is not JSON.           *)

\* the callback of setInterval runs performBackup
backupTimerFired ==
    /\ backupTimer
    /\ backups' = backedUp(backups, sessionMetadata, insertion, now)
    /\ storeRet' = StoreVoid("backupTimer")
    /\ trip' = NoTrip
    /\ UNCHANGED <<trackerVars, engineVars, handlers, sessionMetadata, metadataFile,
                   backupTimer, config, backupDirExists, insertion>>

\* destroy that writes no last backup
finalBackup_None(dir, map, order, t) == dir

\* the backups directory after destroy at time t
finalBackup(dir, map, order, t) ==
    IF config.backupEnabled THEN backedUp(dir, map, order, t) ELSE dir

destroy ==
    /\ backupTimer' = FALSE
    /\ backups' = finalBackup(backups, sessionMetadata, insertion, now)
    /\ storeRet' = StoreVoid("destroy")
    /\ trip' = NoTrip
    /\ UNCHANGED <<trackerVars, engineVars, handlers, sessionMetadata, metadataFile,
                   config, backupDirExists, insertion>>

\* the backups directory is removed, with the files in it
backupDirRemoved ==
    /\ backupDirExists
    /\ backupDirExists' = FALSE
    /\ backups' = << >>
    /\ UNCHANGED <<trackerVars, engineVars, handlers, sessionMetadata, metadataFile,
                   backupTimer, config, storeRet, insertion, trip>>

\* a backup of one session whose list of sessions goes on with a null
MalformedBackup(t) ==
    [OldBackup(t) EXCEPT !.sessions = @ \o <<NullEntry>>]

\* the backups found at start: none; one; one with a null after its first
\* session; an older one and a later file that is not JSON
RestoreBackups ==
    {<< >>,
     [t \in {StartTime - TickMs} |-> OldBackup(t)],
     [t \in {StartTime - TickMs} |-> MalformedBackup(t)],
     [t \in {StartTime - 2 * TickMs, StartTime - TickMs} |->
        IF t = StartTime - TickMs THEN Garbled ELSE OldBackup(t)]}

InitRestore ==
    /\ InitTrackerEmpty
    /\ InitEngineIdle
    /\ handlers = [h \in Handlers |-> IdleHandler]
    /\ \E dir \in RestoreBackups : InitStoreLoaded(<< >>, << >>, dir)

NextRestore ==
    \/ \E metadata \in MetadataInputs(StoreProjectPaths, now) : storeSession(metadata)
    \/ \E backupFile \in BackupFiles : restoreFromBackup(backupFile)
    \/ backupDirRemoved

SpecRestore == InitRestore /\ [][NextRestore]_vars

InitShutdown ==
    /\ InitTrackerEmpty
    /\ InitEngineIdle
    /\ handlers = [h \in Handlers |-> IdleHandler]
    /\ \/ InitStoreLoaded(<< >>, << >>, << >>)
       \/ InitStore(TestConfig, << >>, << >>, << >>)

NextShutdown ==
    \/ \E metadata \in MetadataInputs({"/p1"}, now) : storeSession(metadata)
    \/ backupTimerFired
    \/ destroy
    \/ backupDirRemoved
    \/ Tick

SpecShutdown == InitShutdown /\ [][NextShutdown]_vars

----------------------------------------------------------------------------
(* Properties of backup and restore, checked under SpecBackup *)

AllActive(map) == \A s \in DOMAIN map : map[s].isActive

\* the map was backed up and cleared, and restoreFromBackup() has returned since
RoundTripDone == trip.phase \in {"restored", "restoredTwice"}

\* C19 as stated: with N sessions stored, all active, after performBackup, the clear
\* of the map and restoreFromBackup() the store holds exactly those N sessions with
\* the field values they had, after one restore and after two
C19_RoundTripAnyN ==
    (RoundTripDone /\ AllActive(trip.map)) => sessionMetadata = trip.map

SessionsOf(data) == {data.sessions[i] : i \in 1..Len(data.sessions)}

\* C20: a restoreFromBackup that returns true has read one backup; in the step every
\* session of that backup is in the store with the backup's field values, and every
\* session of the map that the backup does not hold is there as it was
C20_RestoreMerges ==
    [][(storeRet'.op = "restoreFromBackup" /\ storeRet'.val = TRUE) =>
          \E t \in DOMAIN backups :
              /\ storeRet'.backupFile # << >> => t = storeRet'.backupFile[1]
              /\ \A json \in SessionsOf(backups[t]) :
                     /\ json.sessionId \in DOMAIN sessionMetadata'
                     /\ \A f \in DOMAIN json :
                            sessionMetadata'[json.sessionId][f] = json[f]
              /\ \A s \in DOMAIN sessionMetadata :
                     (\A json \in SessionsOf(backups[t]) : json.sessionId # s) =>
                         /\ s \in DOMAIN sessionMetadata'
                         /\ sessionMetadata'[s] = sessionMetadata[s]]_vars

\* C20 witness: after a restore from the backup of the earlier run, a session that
\* backup does not hold is in the store next to the one it holds
C20_Witness ==
    /\ storeRet.op = "restoreFromBackup"
    /\ storeRet.val = TRUE
    /\ storeRet.backupFile = <<StartTime - TickMs>>
    /\ DOMAIN sessionMetadata = SessionIds
    /\ sessionMetadata["s1"].createdAt = StartTime
    /\ sessionMetadata["s2"].createdAt = StartTime - TickMs

\* the backup of the greatest timestamp in its file name
newestBackup(dir) == CHOOSE t \in DOMAIN dir : \A u \in DOMAIN dir : u <= t

\* C22: a restoreFromBackup() that names no file and returns true has restored the
\* backup of the greatest timestamp of the directory: every session of that backup
\* is in the store with the backup's field values
C22_LatestIsNewest ==
    [][(/\ storeRet'.op = "restoreFromBackup"
        /\ storeRet'.backupFile = << >>
        /\ storeRet'.val = TRUE) =>
          \A json \in SessionsOf(backups[newestBackup(backups)]) :
              /\ json.sessionId \in DOMAIN sessionMetadata'
              /\ \A f \in DOMAIN json : sessionMetadata'[json.sessionId][f] = json[f]]_vars

ActiveStored == {s \in DOMAIN sessionMetadata : sessionMetadata[s].isActive}

\* C23: performBackup leaves the map of the store as it is; with no active session
\* it leaves the backups directory as it is; otherwise the file it writes holds one
\* entry for each stored session with isActive = TRUE, with that session's field
\* values, no other entry, and their number as sessionCount
C23_SnapshotOfActive ==
    [][performBackup =>
        /\ sessionMetadata' = sessionMetadata
        /\ IF ActiveStored = {} THEN backups' = backups
           ELSE /\ now \in DOMAIN backups'
                /\ backups'[now].sessionCount = Cardinality(ActiveStored)
                /\ Len(backups'[now].sessions) = Cardinality(ActiveStored)
                /\ \A s \in ActiveStored :
                       \E json \in SessionsOf(backups'[now]) : json.sessionId = s
                /\ \A json \in SessionsOf(backups'[now]) :
                       /\ json.sessionId \in ActiveStored
                       /\ \A f \in DOMAIN json :
                              json[f] = sessionMetadata[json.sessionId][f]]_vars

\* C23 witness: a backup of one session written while the store holds an active and
\* an inactive session
C23_Witness ==
    /\ storeRet.op = "performBackup"
    /\ DOMAIN sessionMetadata = SessionIds
    /\ Cardinality(ActiveStored) = 1
    /\ now \in DOMAIN backups
    /\ backups[now].sessionCount = 1

\* C24: after a performBackup that wrote a file at most maxBackups backups exist:
\* those of the greatest timestamps among the files that were there and the one
\* written, which is one of them; every kept file is newer than every deleted one
\* and the kept files of before are as they were
C24_Retention ==
    [][(performBackup /\ ActiveStored # {}) =>
        LET all == DOMAIN backups \cup {now}
            kept == DOMAIN backups'
        IN /\ kept \subseteq all
           /\ Cardinality(kept) = Min(Cardinality(all), config.maxBackups)
           /\ \A k \in kept, d \in all \ kept : k > d
           /\ now \in kept
           /\ \A k \in kept \ {now} : backups'[k] = backups[k]]_vars

\* C24 witness: the eleventh backup written under the default configuration, and
\* the oldest of the ten before it gone
C24_Witness ==
    /\ storeRet.op = "performBackup"
    /\ config.maxBackups = 10
    /\ now \in DOMAIN backups
    /\ Cardinality(DOMAIN backups) = 10
    /\ ~(StartTime - 10 * (TickMs \div 10) \in DOMAIN backups)

----------------------------------------------------------------------------
(* Properties of a failing restore, checked under SpecRestore *)

\* the failures of restoreFromBackup(backupFile): no directory, no backup file, the
\* named file not there, the file read not JSON
ExpectedFailure(backupFile) ==
    \/ ~backupDirExists
    \/ DOMAIN backups = {}
    \/ /\ backupFile # << >>
       /\ ~(backupFile[1] \in DOMAIN backups)
    \/ /\ backupFile # << >>
       /\ backupFile[1] \in DOMAIN backups
       /\ isGarbled(backups[backupFile[1]])
    \/ /\ backupFile = << >>
       /\ \A t \in DOMAIN backups : isGarbled(backups[t])

\* C21: restoreFromBackup throws nothing; it returns false when the backups
\* directory is missing, when there is no backup file, when the named file is
\* missing and when the file is not parseable; when it returns true it has read a
\* backup and every session of that backup is in the store and in metadata.json
C21_RestoreFailsWithFalse ==
    [][\A backupFile \in BackupFiles :
        restoreFromBackup(backupFile) =>
            /\ ~storeRet'.thrown
            /\ ExpectedFailure(backupFile) =>
                   /\ storeRet'.val = FALSE
                   /\ sessionMetadata' = sessionMetadata
            /\ storeRet'.val = TRUE =>
                   \E t \in DOMAIN backups :
                       /\ ~isGarbled(backups[t])
                       /\ backupFile # << >> => t = backupFile[1]
                       /\ \A json \in SessionsOf(backups[t]) : ~isNull(json)
                       /\ \A json \in SessionsOf(backups[t]) :
                              /\ json.sessionId \in DOMAIN sessionMetadata'
                              /\ json.sessionId \in DOMAIN metadataFile'
                              /\ \A f \in DOMAIN json :
                                     sessionMetadata'[json.sessionId][f] = json[f]]_vars

\* C21 witness: the restore of a named file that is not JSON returned false, next
\* to a backup that could have been restored
C21_Witness ==
    /\ storeRet.op = "restoreFromBackup"
    /\ storeRet.backupFile # << >>
    /\ storeRet.backupFile[1] \in DOMAIN backups
    /\ isGarbled(backups[storeRet.backupFile[1]])
    /\ \E t \in DOMAIN backups : ~isGarbled(backups[t])
    /\ storeRet.val = FALSE
    /\ ~storeRet.thrown

\* C40: a restoreFromBackup that returns false leaves the map of the store and
\* metadata.json as they were
C40_FailedRestoreChangesNothing ==
    [][\A backupFile \in BackupFiles :
        (restoreFromBackup(backupFile) /\ storeRet'.val = FALSE) =>
            /\ sessionMetadata' = sessionMetadata
            /\ metadataFile' = metadataFile]_vars

----------------------------------------------------------------------------
(* The store's map and metadata.json: every mutator of the store, and a     *)
(* restore from a directory that may hold a backup with a null entry        *)

\* markSessionError of the store, called on the store itself
storeMarkSessionError(s, error) ==
    /\ Stored(s) => sessionMetadata[s].retryCount < MaxRetryCount
    /\ sessionMetadata' = storeMarked(s, error)
    /\ metadataFile' = IF Stored(s) THEN saveMetadata(sessionMetadata') ELSE metadataFile
    /\ storeRet' = [op |-> "markSessionError", sid |-> s, val |-> Undefined]
    /\ trip' = NoTrip
    /\ UNCHANGED <<trackerVars, engineVars, handlers, backups, backupTimer, config,
                   backupDirExists, insertion>>

ConsistencyBackups ==
    {<< >>,
     [t \in {StartTime - TickMs} |-> OldBackup(t)],
     [t \in {StartTime - TickMs} |-> MalformedBackup(t)]}

InitConsistency ==
    /\ InitTrackerEmpty
    /\ InitEngineIdle
    /\ handlers = [h \in Handlers |-> IdleHandler]
    /\ \E order \in BootOrders, dir \in ConsistencyBackups :
           InitStoreLoaded(BootFile(order), order, dir)

NextConsistency ==
    \/ \E metadata \in MetadataInputs({"/p1"}, now) : storeSession(metadata)
    \/ \E s \in SessionIds, arg \in IncrementArgs : storeUpdateSessionActivity(s, arg)
    \/ \E s \in SessionIds, error \in ErrorTexts : storeMarkSessionError(s, error)
    \/ \E s \in SessionIds : removeSession(s)
    \/ \E backupFile \in BackupFiles : restoreFromBackup(backupFile)

SpecConsistency == InitConsistency /\ [][NextConsistency]_vars

\* the calls of the store that change its map
MutatingCalls ==
    {"storeSession", "updateSessionActivity", "markSessionError", "removeSession"}

\* C33: when storeSession, updateSessionActivity, markSessionError, removeSession
\* or a successful restoreFromBackup has returned, metadata.json holds the whole
\* map: a store constructed on it loads exactly the map
C33_FileEqualsMap ==
    (\/ storeRet.op \in MutatingCalls
     \/ storeRet.op = "restoreFromBackup" /\ storeRet.val = TRUE)
        => loadMetadata(metadataFile) = sessionMetadata

----------------------------------------------------------------------------
(* Properties of the shutdown, checked under SpecShutdown *)

\* session s of the store, as it is before the step, is in a backup file that the
\* step leaves with a timestamp of now or later
InFinalBackup(s) ==
    \E t \in DOMAIN backups' :
        /\ t >= now
        /\ \E json \in SessionsOf(backups'[t]) :
               /\ json.sessionId = s
               /\ \A f \in DOMAIN json : json[f] = sessionMetadata[s][f]

\* destroy disarms the timer, and a disarmed timer stays so and runs no backup
TimerStopped ==
    /\ [][destroy => ~backupTimer']_vars
    /\ [][~backupTimer => (~backupTimer' /\ ~backupTimerFired)]_vars

\* C25 as stated: destroy stops the backup timer for good, and with the backups
\* directory in place every session active in the store at destroy is in a backup
\* file written at that time or later
C25_DestroyBacksUp ==
    /\ TimerStopped
    /\ [][(destroy /\ backupDirExists) => \A s \in ActiveStored : InFinalBackup(s)]_vars

\* C25: destroy stops the backup timer for good, and in a store with backupEnabled,
\* with the backups directory in place, every session active in the store at
\* destroy is in a backup file written at that time or later; in a store without
\* backupEnabled destroy writes no file
C25_DestroyBacksUpIfEnabled ==
    /\ TimerStopped
    /\ [][(destroy /\ backupDirExists /\ config.backupEnabled) =>
              \A s \in ActiveStored : InFinalBackup(s)]_vars
    /\ [][(destroy /\ ~config.backupEnabled) => backups' = backups]_vars

\* C25 witness: after a destroy later than the start the timer is off and the
\* backup of that time holds the two sessions of the store, next to an older one
C25_Witness ==
    /\ storeRet.op = "destroy"
    /\ config.backupEnabled
    /\ ~backupTimer
    /\ now > StartTime
    /\ ActiveStored = SessionIds
    /\ now \in DOMAIN backups
    /\ backups[now].sessionCount = 2
    /\ Cardinality(DOMAIN backups) > 1

----------------------------------------------------------------------------
(* Bootstrap of the tracker: the scan of the projects directory *)

MaxProjects == 2

\* what readdirSync(claudeProjectsPath) names: a project directory, an entry
\* that is not a directory, a directory readdirSync throws on, an entry that is
\* gone when statSync comes to it
ProjectKinds == {"directory", "file", "unreadable", "removed"}

\* an entry of the projects directory with the session file it holds
ProjectEntries ==
    [kind : ProjectKinds, sessionId : SessionIds, cwd : BootPaths, mtime : BootMTimes,
     birthtime : BootBirthTimes]

ProjectListings ==
    UNION {[1..n -> ProjectEntries] : n \in 0..MaxProjects}

\* the loop over the entries: statSync(projectPath) is outside the try of the
\* entry, so its throw ends the loop in the catch of the method
RECURSIVE scanned(_, _)
scanned(projects, states) ==
    IF projects = << >> THEN states
    ELSE LET p == Head(projects) IN
         CASE p.kind = "removed" -> states
           [] p.kind \in {"file", "unreadable"} -> scanned(Tail(projects), states)
           [] OTHER ->
                scanned(Tail(projects),
                        MapSet(states, p.sessionId, bootState(p.cwd, p.mtime, p.birthtime)))

\* new SessionManager() over the projects the directory holds
initializeSessionTracking(projects) ==
    /\ ret.op = "new"
    /\ sessionStates' = scanned(projects, << >>)
    /\ ret' = [op |-> "initializeSessionTracking", projects |-> projects, thrown |-> FALSE]
    /\ UNCHANGED <<now, streak, engineVars, sessionMetadata, handlers, diskVars>>

InitBoot ==
    /\ now = StartTime
    /\ sessionStates = << >>
    /\ ret = Void("new", Undefined)
    /\ streak = [s \in SessionIds |-> -1]
    /\ InitEngineIdle
    /\ handlers = [h \in Handlers |-> IdleHandler]
    /\ InitStoreLoaded(<< >>, << >>, << >>)

NextBoot == \E projects \in ProjectListings : initializeSessionTracking(projects)

SpecBoot == InitBoot /\ [][NextBoot]_vars

\* C34: after construction every session file of every readable project directory
\* is tracked with retryCount 0, messageCount 0 and isActive derived from the
\* modification time of a file of that name, whatever entries that are not
\* readable directories the scan met, and the constructor has not thrown
C34_BootSkipsAndContinues ==
    ret.op = "initializeSessionTracking" =>
        /\ ~ret.thrown
        /\ \A i \in 1..Len(ret.projects) :
               ret.projects[i].kind = "directory" =>
                   /\ ret.projects[i].sessionId \in DOMAIN sessionStates
                   /\ sessionStates[ret.projects[i].sessionId].retryCount = 0
                   /\ sessionStates[ret.projects[i].sessionId].messageCount = 0
                   /\ \E j \in 1..Len(ret.projects) :
                          /\ ret.projects[j].kind = "directory"
                          /\ ret.projects[j].sessionId = ret.projects[i].sessionId
                          /\ sessionStates[ret.projects[i].sessionId].isActive
                                 = isRecentlyActive(ret.projects[j].mtime)

----------------------------------------------------------------------------
(* Two sessions side by side: the tracker, the store and the recovery of    *)
(* failures, each call naming one session id                                *)

MaxTouched == 1

\* the messages and errors counted so far over the entries of a map
RECURSIVE Counted(_, _)
Counted(map, ids) ==
    IF ids = {} THEN 0
    ELSE LET s == CHOOSE x \in ids : TRUE IN
         map[s].messageCount + map[s].retryCount + Counted(map, ids \ {s})

Touched ==
    Counted(sessionStates, DOMAIN sessionStates)
        + Counted(sessionMetadata, DOMAIN sessionMetadata)

\* the first failure of a chat on either session, one retry allowed
IndependentContexts ==
    [sessionId : SessionIds, operationType : {"chat"}, errorMessage : {<<"e1">>},
     retryCount : {0}, maxRetries : {1}]

\* a failure that is retried while retries are left, and one that is not
IndependentErrors ==
    {<<"n", "e", "t", "w", "o", "r", "k", " ", "t", "i", "m", "e", "o", "u", "t">>,
     <<"v", "a", "l", "i", "d", "a", "t", "i", "o", "n", " ", "f", "a", "i", "l", "e", "d">>}

IndependentMetadata == {md \in MetadataInputs({"/p1"}, now) : md.isActive}

InitIndependent ==
    /\ InitTrackerEmpty
    /\ InitEngineIdle
    /\ handlers = [h \in Handlers |-> IdleHandler]
    /\ InitStoreLoaded(<< >>, << >>, << >>)

NextIndependent ==
    \/ \E s \in SessionIds, p \in ProjectPaths, m \in Models : registerSession(s, p, m)
    \/ \E s \in SessionIds : Touched < MaxTouched /\ updateSessionActivity(s)
    \/ \E s \in SessionIds : Touched < MaxTouched /\ markSessionError(s, <<"e1">>)
    \/ \E metadata \in IndependentMetadata : storeSession(metadata)
    \/ \E s \in SessionIds : Touched < MaxTouched /\ storeUpdateSessionActivity(s, << >>)
    \/ \E s \in SessionIds : Touched < MaxTouched /\ storeMarkSessionError(s, <<"e1">>)
    \/ \E s \in SessionIds : removeSession(s)
    \/ \E error \in IndependentErrors, ctx \in IndependentContexts :
           Touched < MaxTouched /\ handleError("h1", error, ctx)
    \/ backoffElapsed("h1")
    \/ \E fs \in {"missing", "ok"} : healthResumed("h1", fs)
    \/ validationResumed("h1")
    \/ retryResumed("h1")

SpecIndependent == InitIndependent /\ [][NextIndependent]_vars

\* the entry of an id in a map is what it was: absent as before, or the same
EntryKept(before, after, s) ==
    /\ s \in DOMAIN after <=> s \in DOMAIN before
    /\ s \in DOMAIN before => after[s] = before[s]

\* a call on the tracker or on the store that names the session id
NamesSession(s) ==
    \/ \E p \in ProjectPaths, m \in Models : registerSession(s, p, m)
    \/ updateSessionActivity(s)
    \/ markSessionError(s, <<"e1">>)
    \/ \E metadata \in IndependentMetadata :
           metadata.sessionId = s /\ storeSession(metadata)
    \/ storeUpdateSessionActivity(s, << >>)
    \/ storeMarkSessionError(s, <<"e1">>)
    \/ removeSession(s)

\* a step of the recovery of a failure on the session id
RecoversSession(s) ==
    /\ handlers'["h1"] # handlers["h1"]
    /\ handlers'["h1"].pc # "idle"
    /\ handlers'["h1"].ctx.sessionId = s

\* C35: a call of the tracker or of the store on one session id, and every step
\* of the recovery of a failure on it, leave the entry of every other id as it
\* was, in the tracker and in the store
C35_OtherSessionsKept ==
    [][\A b \in SessionIds :
        \/ /\ EntryKept(sessionStates, sessionStates', b)
           /\ EntryKept(sessionMetadata, sessionMetadata', b)
        \/ \A a \in SessionIds \ {b} : ~(RecoversSession(a) \/ NamesSession(a))]_vars

\* both sessions tracked and stored; s1 marked errored in the tracker and in the
\* store by the recovery of its failure, s2 never marked
C35_Witness ==
    /\ Tracked("s1") /\ Tracked("s2") /\ Stored("s1") /\ Stored("s2")
    /\ handlers["h1"].pc = "done"
    /\ handlers["h1"].ctx.sessionId = "s1"
    /\ sessionStates["s1"].retryCount = 1
    /\ sessionMetadata["s1"].retryCount = 1
    /\ sessionStates["s2"].retryCount = 0
    /\ sessionMetadata["s2"].retryCount = 0

----------------------------------------------------------------------------
(* Two invocations of handleError on one session, each taking its steps     *)
(* while the other waits                                                    *)

\* failures of a chat on the session, with no retry left or one
OverlapContexts ==
    [sessionId : LiveIds, operationType : {"chat"}, errorMessage : {<<"e1">>},
     retryCount : {0}, maxRetries : {0, 1}]

\* failures that are retried while a retry is left, and then end in abort, in
\* defer and in fallback
OverlapErrors ==
    {<<"n", "e", "t", "w", "o", "r", "k", " ", "t", "i", "m", "e", "o", "u", "t">>,
     <<"C", "l", "a", "u", "d", "e", " ", "C", "L", "I", " ", "c", "o", "m", "m", "a", "n", "d", " ", "f", "a", "i", "l", "e", "d">>,
     <<"u", "n", "k", "n", "o", "w", "n", " ", "e", "r", "r", "o", "r", " ", "o", "c", "c", "u", "r", "r", "e", "d">>}

NextOverlap ==
    \/ \E h \in Handlers, error \in OverlapErrors, ctx \in OverlapContexts :
           handleError(h, error, ctx)
    \/ \E h \in Handlers : backoffElapsed(h)
    \/ \E h \in Handlers, fs \in FileStates : healthResumed(h, fs)
    \/ \E h \in Handlers : validationResumed(h)
    \/ \E h \in Handlers : retryResumed(h)

SpecOverlap == InitRecovery /\ [][NextOverlap]_vars

\* the results handleError resolves with
WellFormedResults ==
    {fallbackResult, abortResult, deferResult}
        \cup {retryResult(calculateRetryDelay(n)) : n \in 0..MaxRecRetry}

\* the step is one in which an invocation ends in fallback, abort or defer
EndsMarking(h) ==
    /\ handlers'[h].pc = "done"
    /\ handlers'[h].result.strategy \in {"fallback", "abort", "defer"}
    /\ \/ \E error \in OverlapErrors, ctx \in OverlapContexts : handleError(h, error, ctx)
       \/ retryResumed(h)

\* C32: with two invocations of handleError on the same session taking turns, a
\* step in which one of them ends in fallback, abort or defer adds exactly 1 to
\* the retryCount of the tracked session and every other step leaves it as it
\* was; a retryCount of 3 or more goes with isActive FALSE throughout, and an
\* invocation that has ended holds a result of one of the four forms
C32_OverlapMarksOnce ==
    [][/\ \A s \in LiveIds :
              Tracked(s) =>
                  /\ sessionStates'[s].retryCount =
                         sessionStates[s].retryCount
                             + (IF \E h \in Handlers : EndsMarking(h) THEN 1 ELSE 0)
                  /\ sessionStates'[s].retryCount >= 3 => ~sessionStates'[s].isActive
       /\ \A h \in Handlers :
              handlers'[h].pc = "done" => handlers'[h].result \in WellFormedResults]_vars

\* the first invocation waits with a health found valid, and meanwhile the
\* second has ended in abort and the session has reached the ceiling
C32_Witness ==
    /\ handlers["h1"].pc = "validate"
    /\ handlers["h1"].health.isValid
    /\ handlers["h2"].pc = "done"
    /\ handlers["h2"].result.strategy = "abort"
    /\ Tracked("s1")
    /\ sessionStates["s1"].retryCount = 3
    /\ ~sessionStates["s1"].isActive

----------------------------------------------------------------------------
(* A validation under way while the tracker is called: the calls come       *)
(* between the steps of validateSessionForContinuation                      *)

\* the first failure of a chat on the session, one retry allowed
InterleaveContexts ==
    [sessionId : LiveIds, operationType : {"chat"}, errorMessage : {<<"e1">>},
     retryCount : {0}, maxRetries : {1}]

\* a failure that is retried
InterleaveErrors ==
    {<<"n", "e", "t", "w", "o", "r", "k", " ", "t", "i", "m", "e", "o", "u", "t">>}

NextInterleave ==
    \/ \E error \in InterleaveErrors, ctx \in InterleaveContexts :
           handleError("h1", error, ctx)
    \/ backoffElapsed("h1")
    \/ \E fs \in FileStates : healthResumed("h1", fs)
    \/ validationResumed("h1")
    \/ retryResumed("h1")
    \/ \E s \in LiveIds, p \in ProjectPaths, m \in Models : registerSession(s, p, m)
    \/ \E s \in LiveIds : updateSessionActivity(s)
    \/ \E s \in LiveIds, e \in ErrorTexts : markSessionError(s, e)

SpecInterleave == InitRecovery /\ [][NextInterleave]_vars

\* validateSessionForContinuation produces its result in this step
Validates(h) == handlers[h].pc = "validate" /\ handlers'[h].pc = "validated"

\* checkSessionHealth produces its result in this step, from the object it read
ChecksHealth(h) == handlers[h].pc = "health" /\ handlers'[h].pc = "validate"

HeldObject(h) ==
    IF handlers[h].held.live THEN sessionStates[handlers[h].ctx.sessionId]
    ELSE handlers[h].held.st

\* C37 as stated: a result with canContinue = TRUE is produced only when the
\* session is tracked, active and under 3 retries at that moment
C37_ContinuesOnCurrentState ==
    [][\A h \in Handlers :
        (Validates(h) /\ handlers'[h].validation.canContinue) =>
            /\ Tracked(handlers[h].ctx.sessionId)
            /\ sessionStates'[handlers[h].ctx.sessionId].isActive
            /\ sessionStates'[handlers[h].ctx.sessionId].retryCount < 3]_vars

\* C37, amended: a result with canContinue = TRUE is produced only when the
\* session is tracked at that moment and the health check of the same call found
\* it valid; and the health check finds it valid only when the object it had
\* read is, as the health is computed, active, under 3 retries and active within
\* the timeout
C37_ContinuesOnHealthAsRead ==
    [][\A h \in Handlers :
        /\ (Validates(h) /\ handlers'[h].validation.canContinue) =>
               /\ Tracked(handlers[h].ctx.sessionId)
               /\ handlers[h].health.isValid
        /\ (ChecksHealth(h) /\ handlers'[h].health.isValid) =>
               /\ HeldObject(h).isActive
               /\ HeldObject(h).retryCount < 3
               /\ isRecentlyActive(HeldObject(h).lastActivity)]_vars

\* the validation said the session can continue, on a health found valid, and
\* the session has since reached 3 retries and is inactive
C37_Witness ==
    /\ handlers["h1"].pc = "validated"
    /\ handlers["h1"].validation.canContinue
    /\ handlers["h1"].health.isValid
    /\ Tracked("s1")
    /\ sessionStates["s1"].retryCount = 3
    /\ ~sessionStates["s1"].isActive

====
